---- MODULE Spec2Model ----
(***************************************************************************)
(* Model of server/socket-server.py: the authentication lockout            *)
(* (AuthRateLimiter, validate_auth), the request rate limiter              *)
(* (check_rate_limit) and the connection pipeline (handle_client,          *)
(* start_server).                                                          *)
(*                                                                         *)
(* Time is the value returned by time(): a natural number of seconds that  *)
(* the action Tick advances.  One handler call reads one instant.          *)
(***************************************************************************)
EXTENDS Integers, Sequences, FiniteSets, TLC

----------------------------------------------------------------------------
(* Bounds of the model *)

MaxTime == 3
MaxAttempts == 2
MaxWindowSeconds == 2
MaxBlockDuration == 2
MaxProcs == 2
MaxSockIds == 2
MaxRequests == 2
MaxRateWindow == 2
MaxRateClients == 2
MaxConns == 1
MaxServerTime == 1
MaxWireLen == 3
SmallRequestSize == 2
MaxRequestSize == 8
MaxChars == 3
MaxOutputLen == 3
MaxOutputSize == 3
\* sys.get_int_max_str_digits() is 4300; the model scales it to its outputs
IntMaxStrDigits == 2
MaxShutdownConns == 2
MaxWorkers == 2
MaxCommands == 2

----------------------------------------------------------------------------
(* Values *)

\* blocked_clients has no entry for the client
NoBlock == -1

\* request.get('auth_token_hash') is None
MissingHash == "<missing>"
EmptyHash == ""
GoodHash == "hashA"
BadHash == "hashB"
Hashes == {MissingHash, EmptyHash, GoodHash, BadHash}

Pids == 1..MaxProcs
SockIds == 1..MaxSockIds

\* f"process_{pid}"
process_id(pid) == <<"process", pid>>
\* f"client_{id(client_socket)}"
socket_client_id(sid) == <<"client", sid>>

ProcessIds == {process_id(p) : p \in Pids}
ClientIds == ProcessIds \cup {socket_client_id(s) : s \in SockIds}

\* the call that has not been made yet
NoClient == <<"none", 0>>

----------------------------------------------------------------------------
VARIABLES
    now,              \* time()
    auth_enabled,     \* self.auth_enabled
    auth_token_hash,  \* self.auth_token_hash
    max_attempts,     \* AuthRateLimiter.max_attempts
    window_seconds,   \* AuthRateLimiter.window_seconds
    block_duration,   \* AuthRateLimiter.block_duration
    failed_attempts,  \* AuthRateLimiter.failed_attempts: client_id -> [timestamps]
    blocked_clients,  \* AuthRateLimiter.blocked_clients: client_id -> block_until
    auth_call,        \* the last validate_auth call: arguments, result, state before it
    block_began,      \* client_id -> time of the failure that blocked it last
    enable_rate_limit,\* config['enable_rate_limit']
    rate_limit,       \* self.rate_limit: [requests, window]
    request_times,    \* self.request_times: client_id -> [timestamps]
    rate_call,        \* the last check_rate_limit call: arguments, result, state before it
    accepted,         \* client_id -> times of the calls the enabled limiter accepted
    enable_threading, \* config['enable_threading']
    peer_cred,        \* getsockopt(SO_PEERCRED) works on this platform
    debug,            \* config['debug']
    running,          \* self.running
    server_pc,        \* where start_server is: "accept", "handling", "stopped"
    loop_client,      \* id() of the socket the loop variable `client` refers to, 0 for none
    pending,          \* accepted connections whose handle_client has not run yet
    open_socks,       \* id() of the accepted sockets that are not closed
    recent_ok,        \* pid -> times of the latest requests of that process that
                      \* passed the rate check, at most rate_limit.requests of them
    last,             \* the handle_client call that ended since the latest accept:
                      \* its inputs, the stages it passed and its result
    max_request_size, \* self.max_request_size
    wire,             \* the bytes the peer of one connection sends
    sent,             \* how many of them recv has returned
    data,             \* the local `data` of receive_full_message
    recv_pc,          \* receive_full_message: "recv", "returned" or "raised"
    recv_result,      \* [text, error]: what it returned or raised
    recv_event,       \* how the latest recv ended: "chunk", "timeout", "eof"
    recvs,            \* the number of recv calls made
    recv_answer,      \* what handle_client then made of it: [error, handler, argv, closed]
    val_call,         \* the last validate_parameter_value or validate_request
                      \* call: its arguments and its result
    config,           \* the content of the configuration file
    env,              \* os.environ
    load_pc,          \* "new", "constructed", "exited" (sys.exit) or "serving"
    server_socket,    \* self.server_socket: "none" or "bound"
    program,          \* the file the subprocess of a command executed
    max_output_size,  \* self.max_output_size
    executables,      \* command -> the list config['commands'][command]['executable']
    exec_call,        \* the last execute_command call: its request, what the
                      \* subprocess did, the argv, the response and the child
    start_pc,         \* where the main thread is in main and start_server
    socket_file,      \* os.path.exists(self.socket_path)
    signalled,        \* signal_handler has run
    handling,         \* the connections whose handle_client has not returned
    answered,         \* the connections whose handle_client has returned
    caught,           \* the connections being handled when signal_handler ran
    late,             \* the connections accepted after signal_handler ran
    auth_threads      \* connection thread -> where it is in validate_auth, its
                      \* client id, the hash of its request and its result

authConfig == <<auth_enabled, auth_token_hash, max_attempts, window_seconds,
                block_duration>>
authState == <<failed_attempts, blocked_clients>>
authGhost == <<auth_call, block_began>>
rateConfig == <<enable_rate_limit, rate_limit>>
rateState == <<request_times>>
rateGhost == <<rate_call, accepted>>

authVars == <<authConfig, authState, authGhost>>
rateVars == <<rateConfig, rateState, rateGhost>>

serverConfig == <<enable_threading, peer_cred, debug>>
serverState == <<running, server_pc, loop_client, pending, open_socks>>
serverVars == <<serverConfig, serverState, recent_ok, last>>

recvVars == <<max_request_size, wire, sent, data, recv_pc, recv_result,
              recv_event, recvs, recv_answer>>

\* the variables of the parts modelled on their own
valVars == <<val_call>>
loadVars == <<config, env, load_pc, server_socket, program>>
execVars == <<max_output_size, executables, exec_call>>
shutVars == <<start_pc, socket_file, signalled, handling, answered, caught,
              late>>
thrVars == <<auth_threads>>
extVars == <<recvVars, valVars, loadVars, execVars, shutVars, thrVars>>

vars == <<now, authVars, rateVars, serverVars, extVars>>

----------------------------------------------------------------------------
(* AuthRateLimiter.  A limiter state is a record                           *)
(* [failed_attempts, blocked_clients].  failed_attempts is a defaultdict   *)
(* of lists that is only read through [client_id] or deleted, so an absent *)
(* key and an empty list are the same value <<>>.                          *)

Limiter == [failed_attempts |-> failed_attempts, blocked_clients |-> blocked_clients]

\* cleanup that drops a block together with the client's last failure
cleanup_old_entries_by_window(lim, t) ==
    LET kept == [c \in ClientIds |->
                    SelectSeq(lim.failed_attempts[c],
                              LAMBDA x : t - x < window_seconds)]
    IN [failed_attempts |-> kept,
        blocked_clients |->
            [c \in ClientIds |->
                IF lim.blocked_clients[c] # NoBlock
                   /\ (t >= lim.blocked_clients[c] \/ kept[c] = <<>>)
                THEN NoBlock
                ELSE lim.blocked_clients[c]]]

cleanup_old_entries(lim, t) ==
    [failed_attempts |->
        [c \in ClientIds |->
            SelectSeq(lim.failed_attempts[c], LAMBDA x : t - x < window_seconds)],
     blocked_clients |->
        [c \in ClientIds |->
            IF lim.blocked_clients[c] # NoBlock /\ t >= lim.blocked_clients[c]
            THEN NoBlock
            ELSE lim.blocked_clients[c]]]

\* check_rate_limit that starts the block of a blocked client anew
auth_check_rate_limit_restarts_block(lim, client_id, t) ==
    IF lim.blocked_clients[client_id] # NoBlock /\ t < lim.blocked_clients[client_id]
    THEN [ok |-> FALSE,
          lim |-> [lim EXCEPT !.blocked_clients[client_id] = t + block_duration]]
    ELSE LET expired == lim.blocked_clients[client_id] # NoBlock
             lim1 == IF expired
                     THEN [failed_attempts |->
                              [lim.failed_attempts EXCEPT ![client_id] = <<>>],
                           blocked_clients |->
                              [lim.blocked_clients EXCEPT ![client_id] = NoBlock]]
                     ELSE lim
             lim2 == cleanup_old_entries(lim1, t)
         IN [ok |-> Len(lim2.failed_attempts[client_id]) < max_attempts,
             lim |-> lim2]

\* AuthRateLimiter.check_rate_limit: [ok, lim]
auth_check_rate_limit(lim, client_id, t) ==
    IF lim.blocked_clients[client_id] # NoBlock /\ t < lim.blocked_clients[client_id]
    THEN [ok |-> FALSE, lim |-> lim]
    ELSE LET expired == lim.blocked_clients[client_id] # NoBlock
             lim1 == IF expired
                     THEN [failed_attempts |->
                              [lim.failed_attempts EXCEPT ![client_id] = <<>>],
                           blocked_clients |->
                              [lim.blocked_clients EXCEPT ![client_id] = NoBlock]]
                     ELSE lim
             lim2 == cleanup_old_entries(lim1, t)
         IN [ok |-> Len(lim2.failed_attempts[client_id]) < max_attempts,
             lim |-> lim2]

\* record_failure that blocks one attempt too late
record_failure_late(lim, client_id, t) ==
    LET attempts == Append(lim.failed_attempts[client_id], t)
        attempt_count == Len(attempts)
    IN [failed_attempts |-> [lim.failed_attempts EXCEPT ![client_id] = attempts],
        blocked_clients |->
            IF attempt_count > max_attempts
            THEN [lim.blocked_clients EXCEPT ![client_id] = t + block_duration]
            ELSE lim.blocked_clients]

record_failure(lim, client_id, t) ==
    LET attempts == Append(lim.failed_attempts[client_id], t)
        attempt_count == Len(attempts)
    IN [failed_attempts |-> [lim.failed_attempts EXCEPT ![client_id] = attempts],
        blocked_clients |->
            IF attempt_count >= max_attempts
            THEN [lim.blocked_clients EXCEPT ![client_id] = t + block_duration]
            ELSE lim.blocked_clients]

\* record_success that keeps the recorded failures
record_success_keeps_failures(lim, client_id) == lim

record_success(lim, client_id) ==
    [failed_attempts |-> [lim.failed_attempts EXCEPT ![client_id] = <<>>],
     blocked_clients |-> lim.blocked_clients]

\* `if auth_token_hash:` is false for None and for the empty string
Truthy(h) == h # MissingHash /\ h # EmptyHash

\* validate_auth that takes a request without a hash for an authenticated one
validate_auth_optional_hash(lim, hash, client_id, t) ==
    IF ~auth_enabled
    THEN [valid |-> TRUE, error |-> "", lim |-> lim]
    ELSE
      LET c1 == auth_check_rate_limit(lim, client_id, t) IN
      IF ~c1.ok
      THEN [valid |-> FALSE, error |-> "rate_limited", lim |-> c1.lim]
      ELSE
        LET token_valid == ~Truthy(hash) \/ hash = auth_token_hash IN
        IF ~token_valid
        THEN LET l2 == record_failure(c1.lim, client_id, t)
                 c2 == auth_check_rate_limit(l2, client_id, t)
             IN [valid |-> FALSE,
                 error |-> IF ~c2.ok THEN "rate_limited" ELSE "auth_failed",
                 lim |-> c2.lim]
        ELSE LET c3 == auth_check_rate_limit(c1.lim, client_id, t) IN
             IF ~c3.ok
             THEN [valid |-> FALSE, error |-> "rate_limited", lim |-> c3.lim]
             ELSE [valid |-> TRUE, error |-> "",
                   lim |-> record_success(c3.lim, client_id)]

\* validate_auth that checks the hash although authentication is disabled
validate_auth_always_checks(lim, hash, client_id, t) ==
    LET c1 == auth_check_rate_limit(lim, client_id, t) IN
    IF ~c1.ok
    THEN [valid |-> FALSE, error |-> "rate_limited", lim |-> c1.lim]
    ELSE
      LET token_valid == Truthy(hash) /\ hash = auth_token_hash IN
      IF ~token_valid
      THEN LET l2 == record_failure(c1.lim, client_id, t)
               c2 == auth_check_rate_limit(l2, client_id, t)
           IN [valid |-> FALSE,
               error |-> IF ~c2.ok THEN "rate_limited" ELSE "auth_failed",
               lim |-> c2.lim]
      ELSE LET c3 == auth_check_rate_limit(c1.lim, client_id, t) IN
           IF ~c3.ok
           THEN [valid |-> FALSE, error |-> "rate_limited", lim |-> c3.lim]
           ELSE [valid |-> TRUE, error |-> "",
                 lim |-> record_success(c3.lim, client_id)]

\* ConfigurableSocketServer.validate_auth: [valid, error, lim]
validate_auth(lim, hash, client_id, t) ==
    IF ~auth_enabled
    THEN [valid |-> TRUE, error |-> "", lim |-> lim]
    ELSE
      LET c1 == auth_check_rate_limit(lim, client_id, t) IN
      IF ~c1.ok
      THEN [valid |-> FALSE, error |-> "rate_limited", lim |-> c1.lim]
      ELSE
        LET token_valid == Truthy(hash) /\ hash = auth_token_hash IN
        IF ~token_valid
        THEN LET l2 == record_failure(c1.lim, client_id, t)
                 c2 == auth_check_rate_limit(l2, client_id, t)
             IN [valid |-> FALSE,
                 error |-> IF ~c2.ok THEN "rate_limited" ELSE "auth_failed",
                 lim |-> c2.lim]
        ELSE LET c3 == auth_check_rate_limit(c1.lim, client_id, t) IN
             IF ~c3.ok
             THEN [valid |-> FALSE, error |-> "rate_limited", lim |-> c3.lim]
             ELSE [valid |-> TRUE, error |-> "",
                   lim |-> record_success(c3.lim, client_id)]

----------------------------------------------------------------------------
(* What an observer of the calls knows, independent of the limiter's maps *)

\* the block of client_id is active at time t
BlockActive(lim, client_id, t) ==
    lim.blocked_clients[client_id] # NoBlock /\ t < lim.blocked_clients[client_id]

\* the attempt count of a client without an active block: the failures
\* recorded inside the window, none once its block has run out
AttemptCount(lim, client_id, t) ==
    IF lim.blocked_clients[client_id] # NoBlock
    THEN 0
    ELSE Cardinality({i \in 1..Len(lim.failed_attempts[client_id]) :
                        t - lim.failed_attempts[client_id][i] < window_seconds})

NoAuthCall ==
    [client |-> NoClient, hash |-> MissingHash, t |-> 0, valid |-> FALSE,
     error |-> "", pre_active |-> FALSE, pre_count |-> 0, pre_until |-> NoBlock]

AuthCallRecord(lim, hash, client_id, t, r) ==
    [client |-> client_id, hash |-> hash, t |-> t, valid |-> r.valid,
     error |-> r.error,
     pre_active |-> BlockActive(lim, client_id, t),
     pre_count |-> AttemptCount(lim, client_id, t),
     pre_until |-> lim.blocked_clients[client_id]]

\* the failure that has just put client_id into the blocked state
NewlyBlocked(lim, r, client_id, t) ==
    /\ ~r.valid
    /\ ~BlockActive(lim, client_id, t)
    /\ BlockActive(r.lim, client_id, t)

----------------------------------------------------------------------------
(* The request rate limiter: ConfigurableSocketServer.check_rate_limit.    *)
(* request_times is a defaultdict of lists: an absent key is <<>>.         *)

\* check_rate_limit that still admits a request when the window is full
check_rate_limit_off_by_one(rt, client_id, t) ==
    IF ~enable_rate_limit
    THEN [ok |-> TRUE, rt |-> rt]
    ELSE LET kept == SelectSeq(rt[client_id], LAMBDA x : t - x < rate_limit.window)
         IN IF Len(kept) > rate_limit.requests
            THEN [ok |-> FALSE, rt |-> [rt EXCEPT ![client_id] = kept]]
            ELSE [ok |-> TRUE, rt |-> [rt EXCEPT ![client_id] = Append(kept, t)]]

\* check_rate_limit that keeps one list of timestamps for all client ids
check_rate_limit_one_list(rt, client_id, t) ==
    IF ~enable_rate_limit
    THEN [ok |-> TRUE, rt |-> rt]
    ELSE LET kept == SelectSeq(rt[client_id], LAMBDA x : t - x < rate_limit.window)
         IN IF Len(kept) >= rate_limit.requests
            THEN [ok |-> FALSE, rt |-> [c \in ClientIds |-> kept]]
            ELSE [ok |-> TRUE, rt |-> [c \in ClientIds |-> Append(kept, t)]]

\* [ok, rt]
check_rate_limit(rt, client_id, t) ==
    IF ~enable_rate_limit
    THEN [ok |-> TRUE, rt |-> rt]
    ELSE LET kept == SelectSeq(rt[client_id], LAMBDA x : t - x < rate_limit.window)
         IN IF Len(kept) >= rate_limit.requests
            THEN [ok |-> FALSE, rt |-> [rt EXCEPT ![client_id] = kept]]
            ELSE [ok |-> TRUE, rt |-> [rt EXCEPT ![client_id] = Append(kept, t)]]

\* the number of the times in seq that lie less than w before t
Recent(seq, t, w) ==
    Cardinality({i \in 1..Len(seq) : seq[i] <= t /\ t - seq[i] < w})

\* the latest time in seq, -1 for none
Latest(seq) == IF seq = <<>> THEN -1 ELSE seq[Len(seq)]

NoRateCall ==
    [client |-> NoClient, t |-> 0, ok |-> FALSE, pre_recent |-> 0,
     pre_latest |-> -1, pre_len |-> 0]

RateCallRecord(client_id, t, r) ==
    [client |-> client_id, t |-> t, ok |-> r.ok,
     pre_recent |-> Recent(accepted[client_id], t, rate_limit.window),
     pre_latest |-> Latest(accepted[client_id]),
     pre_len |-> Len(accepted[client_id])]

InitRateConfig ==
    /\ enable_rate_limit \in BOOLEAN
    /\ rate_limit \in [requests : 1..MaxRequests, window : 1..MaxRateWindow]

InitRateState ==
    /\ request_times = [c \in ClientIds |-> <<>>]
    /\ rate_call = NoRateCall
    /\ accepted = [c \in ClientIds |-> <<>>]

\* the rate limiter of a specification that makes no use of it
InitRateQuiet ==
    /\ enable_rate_limit = TRUE
    /\ rate_limit = [requests |-> 1, window |-> 1]
    /\ InitRateState

----------------------------------------------------------------------------
(* Requests, the command configuration, validate_request and               *)
(* execute_command.                                                        *)

\* the request has no 'command' key
NoCommand == "<no command>"
\* the request has no 'request_id' key
NoRequestId == "<no request_id>"
\* JSON null, Python None
Null == "null"

\* a JSON value: its JSON type, str(value) and len(value)
StrValue(text, n) == [type |-> "string", str |-> text, len |-> n]
NumValue(text) == [type |-> "number", str |-> text, len |-> 0]
\* a string given by its characters, for the values a pattern is applied to
CharsValue(chars) == [type |-> "string", str |-> chars, len |-> Len(chars)]
BoolValue(b) ==
    [type |-> "boolean", str |-> IF b THEN "True" ELSE "False", len |-> 0]
NullValue == [type |-> "null", str |-> "None", len |-> 0]
ListValue == [type |-> "array", str |-> "[]", len |-> 0]

\* the parameter declares no 'pattern', no 'enum'
NoPattern == "<no pattern>"
NoEnum == {[type |-> "<no enum>", str |-> "", len |-> 0]}

\* a == b in Python, for JSON values: True == 1 and False == 0
PyEq(a, b) ==
    \/ a.type = b.type /\ a.str = b.str
    \/ /\ a.type = "boolean" /\ b.type = "number"
       /\ b.str \in (IF a.str = "True" THEN {"1", "1.0"} ELSE {"0", "0.0"})
    \/ /\ b.type = "boolean" /\ a.type = "number"
       /\ a.str \in (IF b.str = "True" THEN {"1", "1.0"} ELSE {"0", "0.0"})

\* the characters [a-z] stands for among those of the model
Lower == {"a", "b"}

\* the patterns of the model: one or more of [a-z], with and without
\* anchors
Patterns == {"^[a-z]+$", "[a-z]+"}

\* re.match(pattern, chars) is not None: the pattern matches at the start
\* of chars; $ matches at the end and before a newline that ends chars
re_match(pattern, chars) ==
    \E k \in 1..Len(chars) :
        /\ \A i \in 1..k : chars[i] \in Lower
        /\ pattern = "^[a-z]+$"
             => \/ k = Len(chars)
                \/ k = Len(chars) - 1 /\ chars[Len(chars)] = "\n"

\* the command has no 'response_format', or one that does not set
\* 'parse_json'
NoFormat == [parse_json |-> FALSE]

\* config['commands']: the commands of the example configuration, one that
\* declares a parameter of every kind, and one with 'parse_json' set whose
\* parameter 'tab' is declared as {}; parameters in the order of the config
\* file.  A declaration holds the value .get gives for each key, a type of
\* "string", a style of "flag" and a required of FALSE for a key it has
\* not; max_length and timeout are -1 for no key; empty says that the
\* declaration has no key at all.  The last two commands are configured
\* under the names the server reserves for its built-in handlers, as the
\* configuration of tests/test_auth.py configures '__ping__'.
ReservedNames == {"__introspect__", "__ping__"}

CommandNames == {"echo", "date", "probe", "query"} \cup ReservedNames

Commands ==
    [name \in CommandNames |->
        IF name = "echo"
        THEN [executable |-> <<"echo">>,
              parameters |-> <<[name |-> "message", type |-> "string",
                                required |-> TRUE, style |-> "argument",
                                max_length |-> 1000, pattern |-> NoPattern,
                                enum |-> NoEnum, empty |-> FALSE]>>,
              timeout |-> 5, response_format |-> NoFormat]
        ELSE IF name = "probe"
        THEN [executable |-> <<"ls">>,
              parameters |->
                <<[name |-> "level", type |-> "string", required |-> TRUE,
                   style |-> "flag", max_length |-> -1, pattern |-> NoPattern,
                   enum |-> {StrValue("info", 4), StrValue("debug", 5)},
                   empty |-> FALSE],
                  [name |-> "count", type |-> "number", required |-> FALSE,
                   style |-> "flag", max_length |-> -1, pattern |-> NoPattern,
                   enum |-> NoEnum, empty |-> FALSE],
                  [name |-> "long", type |-> "boolean", required |-> FALSE,
                   style |-> "flag", max_length |-> -1, pattern |-> NoPattern,
                   enum |-> NoEnum, empty |-> FALSE],
                  [name |-> "word", type |-> "string", required |-> TRUE,
                   style |-> "argument", max_length |-> 2,
                   pattern |-> "^[a-z]+$", enum |-> NoEnum,
                   empty |-> FALSE]>>,
              timeout |-> -1, response_format |-> NoFormat]
        ELSE IF name = "query"
        THEN [executable |-> <<"jq">>,
              parameters |->
                <<[name |-> "indent", type |-> "number", required |-> FALSE,
                   style |-> "single_flag", max_length |-> -1,
                   pattern |-> NoPattern, enum |-> NoEnum, empty |-> FALSE],
                  [name |-> "tab", type |-> "string", required |-> FALSE,
                   style |-> "flag", max_length |-> -1, pattern |-> NoPattern,
                   enum |-> NoEnum, empty |-> TRUE],
                  [name |-> "arg", type |-> "string", required |-> FALSE,
                   style |-> "flag", max_length |-> -1, pattern |-> NoPattern,
                   enum |-> NoEnum, empty |-> FALSE]>>,
              timeout |-> 1, response_format |-> [parse_json |-> TRUE]]
        ELSE IF name \in ReservedNames
        THEN [executable |-> <<"echo", "pong">>, parameters |-> <<>>,
              timeout |-> 5, response_format |-> NoFormat]
        ELSE [executable |-> <<"date">>, parameters |-> <<>>, timeout |-> 5,
              response_format |-> NoFormat]]

\* str(list(config['commands'].keys()))
Available ==
    "['echo', 'date', 'probe', 'query', '__introspect__', '__ping__']"

\* a reserved name looked up in config['commands'] before the built-in
\* handlers are tried
builtin_command_unless_configured(command) ==
    command \in ReservedNames \ CommandNames

\* `command in ['__introspect__', '__ping__']` of validate_request and the
\* if/elif of execute_command: both come before config['commands'] is read
builtin_command(command) == command \in ReservedNames

\* request['parameters'] as the sequence of its (name, value) items; a
\* request without the key behaves as one with an empty object
ParamValue(params, name) ==
    IF \E i \in 1..Len(params) : params[i][1] = name
    THEN params[CHOOSE i \in 1..Len(params) :
                    /\ params[i][1] = name
                    /\ \A j \in (i+1)..Len(params) : params[j][1] # name][2]
    ELSE NullValue

validate_parameter_value(value, param_config) ==
    /\ ~(param_config.type = "string" /\ value.type # "string")
    \* isinstance(value, (int, float)) holds for a bool as well
    /\ ~(param_config.type = "number" /\ value.type \notin {"number", "boolean"})
    /\ ~(param_config.type = "boolean" /\ value.type # "boolean")
    /\ ~(param_config.type = "string" /\ param_config.pattern # NoPattern
            /\ ~re_match(param_config.pattern, value.str))
    /\ ~(param_config.enum # NoEnum
            /\ ~\E e \in param_config.enum : PyEq(value, e))
    /\ ~(param_config.type = "string" /\ param_config.max_length >= 0
            /\ value.len > param_config.max_length)

\* the last declared parameter that fails; 0 for none
LastFailing(params, declared) ==
    LET fails(i) ==
            LET v == ParamValue(params, declared[i].name) IN
            \/ declared[i].required /\ v.type = "null"
            \/ v.type # "null" /\ ~validate_parameter_value(v, declared[i])
    IN IF \E i \in 1..Len(declared) : fails(i)
       THEN CHOOSE i \in 1..Len(declared) :
                fails(i) /\ \A j \in (i+1)..Len(declared) : ~fails(j)
       ELSE 0

\* the first declared parameter, in config order, that fails; 0 for none
FirstFailing(params, declared) ==
    LET fails(i) ==
            LET v == ParamValue(params, declared[i].name) IN
            \/ declared[i].required /\ v.type = "null"
            \/ v.type # "null" /\ ~validate_parameter_value(v, declared[i])
    IN IF \E i \in 1..Len(declared) : fails(i)
       THEN CHOOSE i \in 1..Len(declared) :
                fails(i) /\ \A j \in 1..(i-1) : ~fails(j)
       ELSE 0

\* [valid, error]
validate_request(request) ==
    IF request.command = NoCommand
    THEN [valid |-> FALSE, error |-> "Missing 'command' field"]
    ELSE IF builtin_command(request.command)
    THEN [valid |-> TRUE, error |-> ""]
    ELSE IF request.command \notin CommandNames
    THEN [valid |-> FALSE,
          error |-> "Unknown command '" \o request.command
                        \o "'. Available: " \o Available]
    ELSE LET declared == Commands[request.command].parameters
             i == FirstFailing(request.parameters, declared)
         IN IF i = 0
            THEN [valid |-> TRUE, error |-> ""]
            ELSE IF ParamValue(request.parameters, declared[i].name).type = "null"
            THEN [valid |-> FALSE,
                  error |-> "Missing required parameter: " \o declared[i].name]
            ELSE [valid |-> FALSE,
                  error |-> "Invalid value for parameter '"
                                \o declared[i].name \o "'"]

\* the declared parameter called name, for none a record without a name
\* that is as false as {}: cmd_config['parameters'].get(param_name)
ParamConfig(declared, name) ==
    IF \E i \in 1..Len(declared) : declared[i].name = name
    THEN declared[CHOOSE i \in 1..Len(declared) : declared[i].name = name]
    ELSE [name |-> "", type |-> "", required |-> FALSE, style |-> "",
          max_length |-> -1, pattern |-> NoPattern, enum |-> NoEnum,
          empty |-> TRUE]

\* the argv entries one request parameter contributes
ParamArgs(declared, item) ==
    LET param_config == ParamConfig(declared, item[1]) IN
    \* `if param_config:` is false for None and for {}
    IF param_config.empty THEN <<>>
    ELSE IF param_config.style = "flag" THEN <<"--" \o item[1], item[2].str>>
    ELSE IF param_config.style = "argument" THEN <<item[2].str>>
    ELSE IF param_config.style = "single_flag"
    THEN <<"--" \o item[1] \o "=" \o item[2].str>>
    ELSE <<>>

RECURSIVE ExtendArgs(_, _, _)
ExtendArgs(executable, declared, params) ==
    IF params = <<>> THEN executable
    ELSE ExtendArgs(executable \o ParamArgs(declared, Head(params)),
                    declared, Tail(params))

\* argv built with the parameters in front of the executable list
build_argv_params_first(request) ==
    ExtendArgs(<<>>, Commands[request.command].parameters, request.parameters)
        \o executables[request.command]

\* the list execute_command passes to subprocess.run
build_argv(request) ==
    ExtendArgs(executables[request.command],
               Commands[request.command].parameters, request.parameters)

\* the response has no 'details' key
NoDetails == "<no details>"
\* str(e) of an exception raised by the interpreter or a library
ExceptionText == "<str(e)>"

\* the keys a response of execute_command may hold besides those every
\* response of the model has
OutputKeys == {"returncode", "stdout", "stderr", "parsed_output", "parse_error"}

\* a response: keys says which of OutputKeys it holds; returncode, stdout
\* and stderr mean something only when keys names them.  Texts are
\* sequences of code points.
NoResponse ==
    [success |-> FALSE, error |-> "<none>", request_id |-> NoRequestId,
     retry_after |-> -1, command |-> NoCommand, details |-> NoDetails,
     keys |-> {}, returncode |-> 0, stdout |-> <<>>, stderr |-> <<>>,
     server_info |-> <<>>]

ErrorResponse(text) == [NoResponse EXCEPT !.error = text]

\* json.loads on the texts of the model: objects, strings without escapes
\* and unsigned integers, with blanks between the tokens.  Each parser
\* takes the position of the first character of its token and gives the
\* position after the token, 0 for a syntax error.
RECURSIVE SkipBlanks(_, _)
SkipBlanks(t, i) ==
    IF i <= Len(t) /\ t[i] = 32 THEN SkipBlanks(t, i + 1) ELSE i

\* i is the position after the opening quote
RECURSIVE StringEnd(_, _)
StringEnd(t, i) ==
    IF i > Len(t) \/ t[i] < 32 \/ t[i] = 92 THEN 0
    ELSE IF t[i] = 34 THEN i + 1
    ELSE StringEnd(t, i + 1)

RECURSIVE DigitsEnd(_, _)
DigitsEnd(t, i) ==
    IF i <= Len(t) /\ t[i] >= 48 /\ t[i] <= 57 THEN DigitsEnd(t, i + 1) ELSE i

RECURSIVE ParseValue(_, _)
RECURSIVE ParseMembers(_, _)

\* i is the position of the quote that opens the name of a member
ParseMembers(t, i) ==
    IF i > Len(t) \/ t[i] # 34 THEN 0
    ELSE LET k == StringEnd(t, i + 1)
             c == IF k = 0 THEN 0 ELSE SkipBlanks(t, k)
         IN IF c = 0 \/ c > Len(t) \/ t[c] # 58 THEN 0
            ELSE LET v == ParseValue(t, SkipBlanks(t, c + 1))
                     e == IF v = 0 THEN 0 ELSE SkipBlanks(t, v)
                 IN IF e = 0 \/ e > Len(t) THEN 0
                    ELSE IF t[e] = 125 THEN e + 1
                    ELSE IF t[e] = 44 THEN ParseMembers(t, SkipBlanks(t, e + 1))
                    ELSE 0

ParseValue(t, i) ==
    IF i > Len(t) THEN 0
    ELSE IF t[i] = 34 THEN StringEnd(t, i + 1)
    ELSE IF t[i] >= 49 /\ t[i] <= 57 THEN DigitsEnd(t, i + 1)
    ELSE IF t[i] = 123
    THEN LET j == SkipBlanks(t, i + 1) IN
         IF j <= Len(t) /\ t[j] = 125 THEN j + 1 ELSE ParseMembers(t, j)
    ELSE 0

\* json.loads(text) succeeds
json_loads(t) ==
    LET e == ParseValue(t, SkipBlanks(t, 1)) IN
    e # 0 /\ SkipBlanks(t, e) = Len(t) + 1

\* json.loads(text) as format_response calls it: "value", "JSONDecodeError",
\* or "ValueError" for an integer of more than IntMaxStrDigits digits, which
\* int() refuses while the number is scanned.  For the outputs of the model,
\* which hold no object.
json_loads_outcome(t) ==
    LET i == SkipBlanks(t, 1) IN
    IF i <= Len(t) /\ t[i] >= 49 /\ t[i] <= 57
         /\ DigitsEnd(t, i + 1) - i > IntMaxStrDigits
    THEN "ValueError"
    ELSE IF json_loads(t) THEN "value" ELSE "JSONDecodeError"

\* str.isspace for the characters below U+0080
IsSpace(c) == c \in {9, 10, 11, 12, 13, 28, 29, 30, 31, 32}

RECURSIVE lstrip(_)
lstrip(text) ==
    IF text # <<>> /\ IsSpace(Head(text)) THEN lstrip(Tail(text)) ELSE text

RECURSIVE rstrip(_)
rstrip(text) ==
    IF text # <<>> /\ IsSpace(text[Len(text)])
    THEN rstrip(SubSeq(text, 1, Len(text) - 1))
    ELSE text

\* str.strip()
strip(text) == rstrip(lstrip(text))

\* "\n... (output truncated)"
TruncationMarker ==
    <<10, 46, 46, 46, 32, 40, 111, 117, 116, 112, 117, 116, 32, 116, 114, 117,
      110, 99, 97, 116, 101, 100, 41>>

\* what execute_command keeps of an output of the subprocess: the slice and
\* the marker
limit_output(text, max) ==
    LET head == SubSeq(text, 1, IF Len(text) < max THEN Len(text) ELSE max) IN
    IF Len(text) > max THEN head \o TruncationMarker ELSE head

\* cmd_config.get('timeout', 10)
DefaultTimeout == 10

\* what the subprocess does once started: it runs for duration seconds and
\* exits with returncode, having written stdout and stderr; one that cannot
\* be started has startable FALSE
QuickProc(returncode, stdout, stderr) ==
    [startable |-> TRUE, duration |-> 0, returncode |-> returncode,
     stdout |-> stdout, stderr |-> stderr]

\* subprocess.run that raises on the timeout without ending the child
subprocess_run_leaves_child(proc, timeout) ==
    IF ~proc.startable THEN [raised |-> "OSError", child |-> "none"]
    ELSE IF proc.duration > timeout
    THEN [raised |-> "TimeoutExpired", child |-> "running"]
    ELSE [raised |-> "", child |-> "exited"]

\* subprocess.run(executable, capture_output=True, timeout=timeout): the
\* exception it raises, "" for none, and what has become of the child.  On
\* the timeout it kills the child and waits for it before it raises.
subprocess_run(proc, timeout) ==
    IF ~proc.startable THEN [raised |-> "OSError", child |-> "none"]
    ELSE IF proc.duration > timeout
    THEN [raised |-> "TimeoutExpired", child |-> "killed"]
    ELSE [raised |-> "", child |-> "exited"]

\* format_response: [raised, response]; raised is "" or the exception
\* that leaves it
format_response(response, format_config) ==
    LET outcome == IF format_config.parse_json /\ response.stdout # <<>>
                   THEN json_loads_outcome(response.stdout)
                   ELSE "not parsed"
    IN [raised |-> IF outcome = "ValueError" THEN outcome ELSE "",
        response |->
          [response EXCEPT
              !.keys = @ \cup (CASE outcome = "value" -> {"parsed_output"}
                                 [] outcome = "JSONDecodeError" -> {"parse_error"}
                                 [] OTHER -> {})]]

\* the response of the clause `except Exception` of execute_command
ExecutionFailed(command) ==
    [NoResponse EXCEPT
        !.error = "Command execution failed",
        !.details = IF debug THEN ExceptionText ELSE Null,
        !.command = command]

\* the try body of execute_command after subprocess.run has returned
completed(cmd_config, command, proc) ==
    LET formatted ==
            format_response(
                [NoResponse EXCEPT
                    !.success = (proc.returncode = 0),
                    !.error = "",
                    !.command = command,
                    !.keys = {"returncode", "stdout", "stderr"},
                    !.returncode = proc.returncode,
                    !.stdout = strip(limit_output(proc.stdout, max_output_size)),
                    !.stderr = strip(limit_output(proc.stderr, max_output_size))],
                cmd_config.response_format)
    IN IF formatted.raised = "" THEN formatted.response
       ELSE ExecutionFailed(command)

\* the try statement of execute_command: [response, child]
run_command(cmd_config, command, proc) ==
    LET timeout == IF cmd_config.timeout = -1 THEN DefaultTimeout
                   ELSE cmd_config.timeout
        result == subprocess_run(proc, timeout)
    IN [child |-> result.child,
        response |->
          CASE result.raised = "TimeoutExpired" ->
                 [NoResponse EXCEPT
                     !.error = "Command timeout after " \o ToString(timeout)
                                   \o " seconds",
                     !.command = command]
            [] result.raised = "OSError" -> ExecutionFailed(command)
            [] OTHER -> completed(cmd_config, command, proc)]

\* what the subprocess does: it exits with 0, exits with 1, outlives the
\* timeout, or cannot be started
Outcomes == {"exit0", "exit1", "timeout", "oserror"}

\* a subprocess with that outcome, silent on stdout and stderr
ProcessOf(outcome) ==
    CASE outcome = "exit0" -> QuickProc(0, <<>>, <<>>)
      [] outcome = "exit1" -> QuickProc(1, <<>>, <<>>)
      [] outcome = "timeout" ->
            [QuickProc(0, <<>>, <<>>) EXCEPT !.duration = DefaultTimeout + 1]
      [] OTHER -> [QuickProc(0, <<>>, <<>>) EXCEPT !.startable = FALSE]

\* the response of handle_introspection: server_info holds, for each
\* command of the config, the parameters it declares
handle_introspection ==
    [NoResponse EXCEPT !.success = TRUE, !.error = "",
                       !.server_info = [c \in CommandNames |->
                                           Commands[c].parameters]]

\* execute_command extending the list of the config itself
config_executable_extended(command, argv) == argv

\* cmd_config['executable'] after execute_command has built argv: the list
\* that was extended is a copy, the list of the config is as it was
config_executable(command, argv) == executables[command]

\* [handler, argv, response, child, executables]; executables are the
\* lists of the config when the call has ended
execute_process(request, proc) ==
    IF builtin_command(request.command) /\ request.command = "__introspect__"
    THEN [handler |-> "introspect", argv |-> <<>>,
          response |-> handle_introspection,
          child |-> "none", executables |-> executables]
    ELSE IF builtin_command(request.command) /\ request.command = "__ping__"
    THEN [handler |-> "ping", argv |-> <<>>,
          response |-> [NoResponse EXCEPT !.success = TRUE, !.error = ""],
          child |-> "none", executables |-> executables]
    ELSE [handler |-> "subprocess", argv |-> build_argv(request),
          executables |->
            [executables EXCEPT ![request.command] =
                config_executable(request.command, build_argv(request))]]
            @@ run_command(Commands[request.command], request.command, proc)

\* execute_command where the subprocess has one of the Outcomes
execute_command(request, outcome) == execute_process(request, ProcessOf(outcome))

----------------------------------------------------------------------------
(* handle_client and the loop of start_server.                             *)
(*                                                                         *)
(* A connection is [sock, pid]: the id() of its socket object and the      *)
(* process of its peer.  A message is what the peer sends on it: a JSON    *)
(* object (kind "request"), a JSON array, text that is no JSON, more than  *)
(* max_request_size bytes, bytes that are no UTF-8, or nothing.  peer_gone *)
(* says that the peer has closed its end, so that every send raises        *)
(* BrokenPipeError.                                                        *)

NoRequest ==
    [command |-> NoCommand, parameters |-> <<>>, hash |-> MissingHash,
     request_id |-> NoRequestId]

RequestIds == {NoRequestId, "r1"}

ParameterLists ==
    {<<>>,
     << <<"message", StrValue("hi", 2)>> >>,
     << <<"message", NumValue("7")>> >>,
     << <<"extra", StrValue("x", 1)>>, <<"message", StrValue("hi", 2)>> >>}

Requests ==
    [command : {"__ping__"}, parameters : {<<>>}, hash : Hashes,
     request_id : RequestIds]
    \cup
    [command : {NoCommand, "__introspect__", "date", "rm"}, parameters : {<<>>},
     hash : {GoodHash, BadHash}, request_id : {"r1"}]
    \cup
    [command : {"echo"}, parameters : ParameterLists, hash : {GoodHash},
     request_id : {"r1"}]

FramingErrors == {"oversized", "invalid_utf8", "empty"}
ProtocolErrors == FramingErrors \cup {"malformed"}

Messages ==
    [kind : {"request"}, request : Requests]
    \cup [kind : ProtocolErrors \cup {"json_list"}, request : {NoRequest}]

\* the subprocess outcomes that can follow a message: a message that names
\* no configured command starts no subprocess
OutcomesOf(msg) ==
    IF msg.kind = "request" /\ msg.request.command \in CommandNames
    THEN Outcomes
    ELSE {"exit0"}

\* str(e) of the ValueError receive_full_message raises
FramingErrorText(kind) ==
    CASE kind = "oversized" -> "Request too large"
      [] kind = "invalid_utf8" -> "Invalid UTF-8 in request"
      [] OTHER -> "Empty request"

\* a refusal that tells a request with an unknown command which commands
\* there are
auth_error_response_after_validation(error, request) ==
    [ErrorResponse(IF ~validate_request(request).valid
                   THEN validate_request(request).error
                   ELSE IF error = "rate_limited"
                   THEN "Too many failed authentication attempts"
                   ELSE "Authentication failed")
        EXCEPT !.request_id = IF request.request_id = NoRequestId
                              THEN Null ELSE request.request_id]

\* the response of handle_client to a request validate_auth refused
auth_error_response(error, request) ==
    [ErrorResponse(IF error = "rate_limited"
                   THEN "Too many failed authentication attempts"
                   ELSE "Authentication failed")
        EXCEPT !.request_id = IF request.request_id = NoRequestId
                              THEN Null ELSE request.request_id]

\* a lockout key taken from the socket object although the pid is known
auth_client_id_by_socket(conn) == socket_client_id(conn.sock)

\* the key of the authentication lockout: the name handle_client gives the
\* peer from the pid of SO_PEERCRED, the name of the socket object where
\* getsockopt raises
auth_client_id(conn) ==
    IF peer_cred THEN process_id(conn.pid) ELSE socket_client_id(conn.sock)

\* the body of handle_client up to its first send: the stages passed, the
\* response handed to send, whether that send is in the try body (in_try)
\* or in an except clause, and the limiter maps afterwards
HandleStages(conn, msg, outcome) ==
    LET client_id == socket_client_id(conn.sock)
        auth_id == auth_client_id(conn)
        request == msg.request
        rl == check_rate_limit(request_times, client_id, now)
        base == [rate_ok |-> rl.ok, auth |-> "skipped", validated |-> "skipped",
                 handler |-> "none", argv |-> <<>>, response |-> NoResponse,
                 in_try |-> TRUE, rt |-> rl.rt, lim |-> Limiter,
                 executables |-> executables, stages |-> <<"RATE_CHECK">>,
                 auth_client_id |-> auth_id]
    IN
    IF ~rl.ok
    THEN [base EXCEPT !.response =
            [ErrorResponse("Rate limit exceeded")
                EXCEPT !.retry_after = rate_limit.window]]
    ELSE IF msg.kind \in FramingErrors
    THEN [base EXCEPT !.response = ErrorResponse(FramingErrorText(msg.kind)),
                      !.in_try = FALSE,
                      !.stages = <<"RATE_CHECK", "FRAMING">>]
    ELSE IF msg.kind = "malformed"
    THEN [base EXCEPT !.response = [ErrorResponse("Invalid JSON")
                                        EXCEPT !.details = ExceptionText],
                      !.in_try = FALSE,
                      !.stages = <<"RATE_CHECK", "FRAMING">>]
    ELSE IF msg.kind = "json_list"
    THEN \* a list has no .get: AttributeError in validate_auth or right after it
         IF auth_enabled
         THEN [base EXCEPT
                 !.lim = auth_check_rate_limit(Limiter, auth_id, now).lim,
                 !.response = [ErrorResponse("Internal server error")
                                EXCEPT !.details = IF debug THEN ExceptionText
                                                   ELSE NoDetails],
                 !.in_try = FALSE,
                 !.stages = <<"RATE_CHECK", "FRAMING", "AUTH_CHECK">>]
         ELSE [base EXCEPT !.auth = "ok", !.validated = "rejected",
                 !.response = ErrorResponse("Missing 'command' field"),
                 !.stages = <<"RATE_CHECK", "FRAMING", "AUTH_CHECK",
                              "VALIDATE">>]
    ELSE
    LET a == validate_auth(Limiter, request.hash, auth_id, now) IN
    IF ~a.valid
    THEN [base EXCEPT
            !.auth = a.error, !.lim = a.lim,
            !.stages = <<"RATE_CHECK", "FRAMING", "AUTH_CHECK">>,
            !.response = auth_error_response(a.error, request)]
    ELSE
    LET v == validate_request(request) IN
    IF ~v.valid
    THEN [base EXCEPT
            !.auth = "ok", !.lim = a.lim, !.validated = "rejected",
            !.stages = <<"RATE_CHECK", "FRAMING", "AUTH_CHECK", "VALIDATE">>,
            !.response = [ErrorResponse(v.error)
                            EXCEPT !.request_id = request.request_id]]
    ELSE
    LET e == execute_command(request, outcome) IN
    [base EXCEPT
        !.auth = "ok", !.lim = a.lim, !.validated = "ok",
        !.handler = e.handler, !.argv = e.argv,
        !.executables = e.executables,
        !.stages = <<"RATE_CHECK", "FRAMING", "AUTH_CHECK", "VALIDATE",
                     "EXECUTE">>,
        !.response = [e.response EXCEPT !.request_id = request.request_id]]

\* handle_client that closes the socket only when no exception leaves it
handle_client_no_finally(conn, msg, peer_gone, outcome) ==
    LET st == HandleStages(conn, msg, outcome) IN
    [st EXCEPT !.stages = st.stages \o <<"RESPONDING">>
                            \o (IF peer_gone THEN <<>> ELSE <<"CLOSED">>)] @@
    [writes |-> IF peer_gone /\ st.in_try THEN 2 ELSE 1,
     sent |-> ~peer_gone, raised |-> peer_gone, closed |-> ~peer_gone]

\* the whole of handle_client.  A send that raises in the try body is
\* caught by `except Exception`, whose own send raises again; a send that
\* raises in an except clause leaves handle_client; `finally` closes the
\* socket on every way out.
handle_client(conn, msg, peer_gone, outcome) ==
    LET st == HandleStages(conn, msg, outcome) IN
    [st EXCEPT !.stages = st.stages \o <<"RESPONDING", "CLOSED">>] @@
    [writes |-> IF peer_gone /\ st.in_try THEN 2 ELSE 1,
     sent |-> ~peer_gone, raised |-> peer_gone, closed |-> TRUE]

NoConn == [sock |-> 0, pid |-> 0]

\* the last n entries of seq
LastN(seq, n) ==
    IF Len(seq) <= n THEN seq ELSE SubSeq(seq, Len(seq) - n + 1, Len(seq))

NoLast ==
    [handled |-> FALSE, conn |-> NoConn,
     msg |-> [kind |-> "empty", request |-> NoRequest], peer_gone |-> FALSE,
     pre_locked |-> FALSE, pre_recent |-> 0, rate_ok |-> FALSE, auth |-> "skipped",
     validated |-> "skipped", handler |-> "none", argv |-> <<>>,
     response |-> NoResponse, writes |-> 0, sent |-> FALSE, raised |-> FALSE,
     closed |-> FALSE, stages |-> <<>>]

LastRecord(conn, msg, peer_gone, r) ==
    [handled |-> TRUE, conn |-> conn, msg |-> msg, peer_gone |-> peer_gone,
     pre_locked |-> BlockActive(Limiter, r.auth_client_id, now),
     pre_recent |-> Recent(recent_ok[conn.pid], now, rate_limit.window),
     rate_ok |-> r.rate_ok, auth |-> r.auth, validated |-> r.validated,
     handler |-> r.handler, argv |-> r.argv, response |-> r.response,
     writes |-> r.writes, sent |-> r.sent, raised |-> r.raised,
     closed |-> r.closed, stages |-> r.stages]

InitServerState ==
    /\ running = TRUE
    /\ server_pc = "accept"
    /\ loop_client = 0
    /\ pending = {}
    /\ open_socks = {}
    /\ recent_ok = [p \in Pids |-> <<>>]
    /\ last = NoLast

\* the server of a specification that calls the limiters directly
InitServerQuiet ==
    /\ enable_threading = FALSE
    /\ peer_cred = TRUE
    /\ debug = FALSE
    /\ InitServerState

----------------------------------------------------------------------------
(* receive_full_message.  Bytes are numbers 0..255, a text is the sequence *)
(* of the code points of its characters.                                   *)

\* the bytes peers send in the model: space " 1 : { } and the two bytes of
\* U+00E9
Bytes == {32, 34, 49, 58, 123, 125, 195, 169}

\* the argument of client_socket.recv
RecvSize == 4096

IsContinuation(b) == b >= 128 /\ b <= 191

\* the length of the UTF-8 sequence that lead byte b starts, 0 for a byte
\* that starts none
Utf8Width(b) ==
    IF b < 128 THEN 1
    ELSE IF b >= 194 /\ b <= 223 THEN 2
    ELSE IF b >= 224 /\ b <= 239 THEN 3
    ELSE IF b >= 240 /\ b <= 244 THEN 4
    ELSE 0

\* bytes b[1..w] are one well-formed UTF-8 sequence (no overlong form, no
\* surrogate, nothing above U+10FFFF)
WellFormed(b, w) ==
    /\ \A i \in 2..w : IsContinuation(b[i])
    /\ (b[1] = 224) => b[2] >= 160
    /\ (b[1] = 237) => b[2] <= 159
    /\ (b[1] = 240) => b[2] >= 144
    /\ (b[1] = 244) => b[2] <= 143

CodePoint(b, w) ==
    CASE w = 1 -> b[1]
      [] w = 2 -> (b[1] - 192) * 64 + (b[2] - 128)
      [] w = 3 -> (b[1] - 224) * 4096 + (b[2] - 128) * 64 + (b[3] - 128)
      [] OTHER -> (b[1] - 240) * 262144 + (b[2] - 128) * 4096
                    + (b[3] - 128) * 64 + (b[4] - 128)

\* bytes.decode('utf-8'): [ok, text]; ok is FALSE for UnicodeDecodeError
RECURSIVE utf8_decode(_)
utf8_decode(bytes) ==
    IF bytes = <<>> THEN [ok |-> TRUE, text |-> <<>>]
    ELSE LET w == Utf8Width(bytes[1]) IN
         IF w = 0 \/ Len(bytes) < w THEN [ok |-> FALSE, text |-> <<>>]
         ELSE IF ~WellFormed(bytes, w) THEN [ok |-> FALSE, text |-> <<>>]
         ELSE LET rest == utf8_decode(SubSeq(bytes, w + 1, Len(bytes))) IN
              IF rest.ok
              THEN [ok |-> TRUE, text |-> <<CodePoint(bytes, w)>> \o rest.text]
              ELSE [ok |-> FALSE, text |-> <<>>]

\* str(e) of the exceptions that leave receive_full_message
TooLarge == "Request too large"
InvalidUtf8 == "Invalid UTF-8 in request"
EmptyRequest == "Empty request"

Receiving(buf) == [data |-> buf, pc |-> "recv", text |-> <<>>, error |-> ""]
Raised(buf, e) == [data |-> buf, pc |-> "raised", text |-> <<>>, error |-> e]

\* the code after the loop: the empty check and the final decode
receive_end(buf) ==
    IF buf = <<>> THEN Raised(buf, EmptyRequest)
    ELSE IF utf8_decode(buf).ok
    THEN [data |-> buf, pc |-> "returned", text |-> utf8_decode(buf).text,
          error |-> ""]
    ELSE Raised(buf, "UnicodeDecodeError")

\* the size check made with >= in place of >
receive_chunk_size_inclusive(buf, chunk, max) ==
    LET d == buf \o chunk IN
    IF Len(d) >= max THEN Raised(d, TooLarge)
    ELSE IF ~utf8_decode(d).ok THEN Raised(d, InvalidUtf8)
    ELSE IF json_loads(utf8_decode(d).text) THEN receive_end(d)
    ELSE Receiving(d)

\* a decode error taken for an incomplete message
receive_chunk_decode_later(buf, chunk, max) ==
    LET d == buf \o chunk IN
    IF Len(d) > max THEN Raised(d, TooLarge)
    ELSE IF ~utf8_decode(d).ok THEN Receiving(d)
    ELSE IF json_loads(utf8_decode(d).text) THEN receive_end(d)
    ELSE Receiving(d)

\* one pass of the loop for a chunk that is not empty
receive_chunk(buf, chunk, max) ==
    LET d == buf \o chunk IN
    IF Len(d) > max THEN Raised(d, TooLarge)
    ELSE IF ~utf8_decode(d).ok THEN Raised(d, InvalidUtf8)
    ELSE IF json_loads(utf8_decode(d).text) THEN receive_end(d)
    ELSE Receiving(d)

\* a timeout with bytes in the buffer reported as an error
receive_timeout_strict(buf) ==
    IF buf = <<>> THEN Raised(buf, EmptyRequest) ELSE Raised(buf, "Request timeout")

\* socket.timeout in recv: the loop ends with whatever is buffered
receive_timeout(buf) == receive_end(buf)

\* an empty chunk taken for a pause of the peer: the loop goes on
receive_eof_keeps_reading(buf) == Receiving(buf)

\* recv returned b"": the peer closed its end
receive_eof(buf) == receive_end(buf)

----------------------------------------------------------------------------
(* Construction of the server: load_config, validate_executable_path and   *)
(* the authentication setup of __init__.  A path is the sequence of its    *)
(* characters.                                                             *)

\* the file system: directories and files as sequences of names from the
\* root; no symbolic links
Dirs == {<<>>, <<"b">>, <<"bx">>, <<"t">>}
ExecutableFiles == {<<"b", "x">>, <<"bx", "x">>, <<"t", "x">>}
PlainFiles == {<<"b", "n">>}

\* the name a sequence of characters spells, for the names of the model
NameOf(chars) ==
    CASE chars = <<>> -> ""
      [] chars = <<".">> -> "."
      [] chars = <<".", ".">> -> ".."
      [] chars = <<"b">> -> "b"
      [] chars = <<"b", "x">> -> "bx"
      [] chars = <<"t">> -> "t"
      [] chars = <<"x">> -> "x"
      [] chars = <<"n">> -> "n"
      [] OTHER -> "?"

\* path.split('/') with every part spelled out
RECURSIVE SplitChars(_)
SplitChars(path) ==
    IF path = <<>> THEN << <<>> >>
    ELSE LET rest == SplitChars(Tail(path)) IN
         IF Head(path) = "/" THEN << <<>> >> \o rest
         ELSE << <<Head(path)>> \o Head(rest) >> \o Tail(rest)

Names(path) ==
    LET parts == SplitChars(path) IN
    [i \in 1..Len(parts) |-> NameOf(parts[i])]

\* the kernel's walk along names from directory cur: [ok, at]
RECURSIVE Walk(_, _)
Walk(names, cur) ==
    IF names = <<>> THEN [ok |-> TRUE, at |-> cur]
    ELSE IF cur \notin Dirs THEN [ok |-> FALSE, at |-> cur]
    ELSE IF Head(names) \in {"", "."} THEN Walk(Tail(names), cur)
    ELSE IF Head(names) = ".."
    THEN Walk(Tail(names),
              IF cur = <<>> THEN cur ELSE SubSeq(cur, 1, Len(cur) - 1))
    ELSE IF Append(cur, Head(names)) \in Dirs \cup ExecutableFiles \cup PlainFiles
    THEN Walk(Tail(names), Append(cur, Head(names)))
    ELSE [ok |-> FALSE, at |-> cur]

\* where the path leads; the working directory is the root
Resolve(path) == Walk(Names(path), <<>>)

\* os.path.exists(path) and os.access(path, os.X_OK): a directory that can
\* be searched passes X_OK as well
exists_and_executable(path) ==
    /\ path # <<>>
    /\ Resolve(path).ok
    /\ Resolve(path).at \in ExecutableFiles \cup Dirs

isabs(path) == path # <<>> /\ Head(path) = "/"

startswith(path, prefix) ==
    Len(prefix) <= Len(path) /\ SubSeq(path, 1, Len(prefix)) = prefix

\* os.path.join(dir_path, binary)
join(dir_path, binary) ==
    IF isabs(binary) THEN binary
    ELSE IF dir_path = <<>> \/ dir_path[Len(dir_path)] = "/"
    THEN dir_path \o binary
    ELSE dir_path \o <<"/">> \o binary

\* the file an execve of path starts, the working directory being the root
executable_file(path) ==
    LET r == Resolve(path) IN
    IF path # <<>> /\ r.ok /\ r.at \in ExecutableFiles
    THEN [found |-> TRUE, at |-> r.at]
    ELSE [found |-> FALSE, at |-> <<>>]

\* the search of the child along the PATH: [found, at]
RECURSIVE exec_search(_, _)
exec_search(binary, path) ==
    IF path = <<>> THEN [found |-> FALSE, at |-> <<>>]
    ELSE LET f == executable_file(join(Head(path), binary)) IN
         IF f.found THEN f ELSE exec_search(binary, Tail(path))

\* what _execute_child of subprocess makes of executable[0]
exec_file(binary, path) ==
    IF \E i \in 1..Len(binary) : binary[i] = "/"
    THEN executable_file(binary)
    ELSE exec_search(binary, path)

\* the command has no 'executable' key
NoExecutable == << <<"<no executable>">> >>

validate_executable_path(executable, allowed_dirs) ==
    IF executable = <<>> THEN FALSE
    ELSE LET binary == executable[1] IN
         IF isabs(binary)
         THEN /\ \E d \in allowed_dirs : startswith(binary, d)
              /\ exists_and_executable(binary)
         ELSE \E d \in allowed_dirs : exists_and_executable(join(d, binary))

\* the command, in the order of the file, at which the loop of load_config
\* raises; 0 for none
FirstBadCommand(cfg) ==
    LET bad(i) ==
            \/ cfg.commands[i] = NoExecutable
            \/ ~validate_executable_path(cfg.commands[i],
                                         cfg.allowed_executable_dirs)
    IN IF \E i \in 1..Len(cfg.commands) : bad(i)
       THEN CHOOSE i \in 1..Len(cfg.commands) :
                bad(i) /\ \A j \in 1..(i - 1) : ~bad(j)
       ELSE 0

\* load_config: TRUE when it returns the config, FALSE when it ends in
\* sys.exit(1)
load_config(cfg) ==
    /\ cfg.well_formed
    /\ cfg.missing = "none"
    /\ FirstBadCommand(cfg) = 0

\* the key or the variable is not set
Unset == "<unset>"

_load_auth_config(cfg, environ) ==
    IF cfg.auth_enabled # Unset THEN cfg.auth_enabled = "true"
    ELSE IF environ.AUTH_ENABLED # Unset
    THEN environ.AUTH_ENABLED \in {"true", "1", "yes", "on"}
    ELSE FALSE

\* a hash taken from the plaintext AUTH_TOKEN when no hash is configured
_load_auth_token_hash_from_token(cfg, environ) ==
    IF Truthy(environ.AUTH_TOKEN_HASH) THEN environ.AUTH_TOKEN_HASH
    ELSE IF cfg.auth_token_hash # MissingHash THEN cfg.auth_token_hash
    ELSE IF environ.AUTH_TOKEN # Unset THEN GoodHash
    ELSE MissingHash

\* MissingHash stands for None
_load_auth_token_hash(cfg, environ) ==
    IF Truthy(environ.AUTH_TOKEN_HASH) THEN environ.AUTH_TOKEN_HASH
    ELSE IF cfg.auth_token_hash # MissingHash THEN cfg.auth_token_hash
    ELSE MissingHash

\* __init__: [ok, auth_enabled, auth_token_hash]; ok is FALSE for sys.exit(1)
construct(cfg, environ) ==
    IF ~load_config(cfg)
    THEN [ok |-> FALSE, auth_enabled |-> FALSE, auth_token_hash |-> MissingHash]
    ELSE IF ~_load_auth_config(cfg, environ)
    THEN [ok |-> TRUE, auth_enabled |-> FALSE, auth_token_hash |-> MissingHash]
    ELSE LET h == _load_auth_token_hash(cfg, environ) IN
         [ok |-> Truthy(h), auth_enabled |-> TRUE, auth_token_hash |-> h]

NoConfig ==
    [well_formed |-> FALSE, missing |-> "none", commands |-> <<>>,
     allowed_executable_dirs |-> {}, auth_enabled |-> Unset,
     auth_token_hash |-> MissingHash, path |-> <<>>]

\* no subprocess was started
NoProgram == [command |-> 0, found |-> FALSE, at |-> <<>>]

NoEnv ==
    [AUTH_ENABLED |-> Unset, AUTH_TOKEN_HASH |-> MissingHash,
     AUTH_TOKEN |-> Unset]

\* no construction was followed
InitLoadQuiet ==
    /\ config = NoConfig
    /\ env = NoEnv
    /\ load_pc = "serving"
    /\ server_socket = "bound"
    /\ program = NoProgram

\* the message handle_client has in hand once receive_full_message ended
\* with r: the kind of the error raised, or of the text returned.  No text
\* of the model spells "command", so an object is a request without keys.
MessageOf(r) ==
    [kind |-> IF r.pc = "raised"
              THEN CASE r.error = TooLarge -> "oversized"
                     [] r.error = EmptyRequest -> "empty"
                     [] OTHER -> "invalid_utf8"
              ELSE IF ~json_loads(r.text) THEN "malformed"
              ELSE IF r.text[SkipBlanks(r.text, 1)] = 123 THEN "request"
              ELSE "json_list",
     request |-> NoRequest]

\* the values of MessageOf
RecvMessages ==
    [kind : ProtocolErrors \cup {"request", "json_list"}, request : {NoRequest}]

\* the connection receive_full_message is followed on
RecvConn == [sock |-> 1, pid |-> 1]

NoAnswer == [error |-> "<none>", handler |-> "none", argv |-> <<>>, closed |-> FALSE]

InitRecvState ==
    /\ sent = 0
    /\ data = <<>>
    /\ recv_pc = "recv"
    /\ recv_result = [text |-> <<>>, error |-> ""]
    /\ recv_event = "none"
    /\ recvs = 0
    /\ recv_answer = NoAnswer

\* receive_full_message in a specification that makes no use of it
InitRecvQuiet ==
    /\ max_request_size = MaxRequestSize
    /\ wire = <<>>
    /\ InitRecvState

NoParamConfig ==
    [name |-> "", type |-> "", required |-> FALSE, style |-> "",
     max_length |-> -1, pattern |-> NoPattern, enum |-> NoEnum,
     empty |-> TRUE]

NoValCall ==
    [kind |-> "none", value |-> NullValue, param_config |-> NoParamConfig,
     request |-> NoRequest, valid |-> FALSE, error |-> ""]

\* no validation call was followed
InitValQuiet == val_call = NoValCall

\* the list of each command as load_config read it
InitExecutables == [c \in CommandNames |-> Commands[c].executable]

NoProc ==
    [startable |-> FALSE, duration |-> 0, returncode |-> 0, stdout |-> <<>>,
     stderr |-> <<>>]

NoExecCall ==
    [kind |-> "none", request |-> NoRequest, proc |-> NoProc, argv |-> <<>>,
     response |-> NoResponse, child |-> "none"]

InitExecQuiet ==
    /\ max_output_size = MaxOutputSize
    /\ executables = InitExecutables
    /\ exec_call = NoExecCall

\* the main thread is in the loop of start_server and no signal has come
\* the connection threads of the model of concurrent validate_auth calls
Workers == 1..MaxWorkers

IdleWorker ==
    [pc |-> "idle", client |-> NoClient, hash |-> MissingHash, valid |-> FALSE,
     error |-> ""]

InitThrQuiet == auth_threads = [w \in Workers |-> IdleWorker]

InitShutQuiet ==
    /\ start_pc = "loop"
    /\ socket_file = TRUE
    /\ signalled = FALSE
    /\ handling = {}
    /\ answered = {}
    /\ caught = {}
    /\ late = {}

InitExtQuiet ==
    /\ InitRecvQuiet /\ InitValQuiet /\ InitLoadQuiet /\ InitExecQuiet
    /\ InitShutQuiet /\ InitThrQuiet

----------------------------------------------------------------------------
(* The authentication engine on its own: validate_auth calls of any client *)
(* at any time.                                                            *)

InitAuthConfig ==
    /\ auth_enabled \in BOOLEAN
    /\ auth_token_hash = GoodHash
    /\ max_attempts \in 1..MaxAttempts
    /\ window_seconds \in 1..MaxWindowSeconds
    /\ block_duration \in 1..MaxBlockDuration

InitAuthState ==
    /\ now = 0
    /\ failed_attempts = [c \in ClientIds |-> <<>>]
    /\ blocked_clients = [c \in ClientIds |-> NoBlock]
    /\ auth_call = NoAuthCall
    /\ block_began = [c \in ClientIds |-> NoBlock]

\* the authentication engine of a specification that makes no use of it
InitAuthQuiet ==
    /\ auth_enabled = FALSE
    /\ auth_token_hash = GoodHash
    /\ max_attempts = 1
    /\ window_seconds = 1
    /\ block_duration = 1
    /\ InitAuthState

InitAuth ==
    InitAuthConfig /\ InitAuthState /\ InitRateQuiet /\ InitServerQuiet
        /\ InitExtQuiet

Tick ==
    /\ now < MaxTime
    /\ now' = now + 1
    /\ UNCHANGED <<authVars, rateVars, serverVars, extVars>>

ValidateAuthCall(client_id, hash) ==
    LET r == validate_auth(Limiter, hash, client_id, now) IN
    /\ failed_attempts' = r.lim.failed_attempts
    /\ blocked_clients' = r.lim.blocked_clients
    /\ auth_call' = AuthCallRecord(Limiter, hash, client_id, now, r)
    /\ block_began' = IF NewlyBlocked(Limiter, r, client_id, now)
                      THEN [block_began EXCEPT ![client_id] = now]
                      ELSE block_began
    /\ UNCHANGED <<now, authConfig, rateVars, serverVars, extVars>>

NextAuth ==
    \/ Tick
    \/ \E p \in Pids, h \in Hashes : ValidateAuthCall(process_id(p), h)

SpecAuth == InitAuth /\ [][NextAuth]_vars

----------------------------------------------------------------------------
(* The rate limiter on its own: check_rate_limit calls of any client id at *)
(* any time.                                                               *)

InitRate ==
    InitRateConfig /\ InitRateState /\ InitAuthQuiet /\ InitServerQuiet
        /\ InitExtQuiet

CheckRateLimitCall(client_id) ==
    LET r == check_rate_limit(request_times, client_id, now) IN
    /\ request_times' = r.rt
    /\ rate_call' = RateCallRecord(client_id, now, r)
    /\ accepted' = IF r.ok /\ enable_rate_limit
                   THEN [accepted EXCEPT ![client_id] = Append(@, now)]
                   ELSE accepted
    /\ UNCHANGED <<now, authVars, rateConfig, serverVars, extVars>>

NextRate ==
    \/ Tick
    \/ \E s \in 1..MaxRateClients : CheckRateLimitCall(socket_client_id(s))

SpecRate == InitRate /\ [][NextRate]_vars

----------------------------------------------------------------------------
(* The server: connections of any process, any message on each *)

Init ==
    /\ auth_enabled \in BOOLEAN
    /\ auth_token_hash = GoodHash
    /\ max_attempts = MaxAttempts
    /\ window_seconds = 1
    /\ block_duration = 1
    /\ InitAuthState
    /\ enable_rate_limit \in BOOLEAN
    /\ rate_limit = [requests |-> 1, window |-> 1]
    /\ InitRateState
    /\ enable_threading \in BOOLEAN
    /\ peer_cred \in BOOLEAN
    /\ debug \in BOOLEAN
    /\ InitServerState
    /\ InitExtQuiet

\* the sockets that are referenced: those of the connections not handled
\* yet and the one the loop variable holds
LiveSocks == {c.sock : c \in pending} \cup {loop_client}

\* server_socket.accept() returns a connection of process pid; its socket
\* object gets an id() that no live object has
Accept(pid, sid) ==
    /\ running
    /\ server_pc = "accept"
    /\ Cardinality(pending) < MaxConns
    /\ sid \notin LiveSocks
    /\ pending' = pending \cup {[sock |-> sid, pid |-> pid]}
    /\ open_socks' = open_socks \cup {sid}
    /\ loop_client' = sid
    /\ server_pc' = IF enable_threading THEN "accept" ELSE "handling"
    /\ last' = NoLast
    /\ UNCHANGED <<now, authVars, rateVars, serverConfig, running, recent_ok,
                   extVars>>

\* handle_client runs for an accepted connection: inline in the loop, or
\* in the connection's thread.  Inline, an OSError that leaves it is
\* re-raised by the loop while running is set, and start_server ends in
\* cleanup().
HandleClient(conn, msg, peer_gone, outcome) ==
    /\ conn \in pending
    /\ enable_threading \/ server_pc = "handling"
    /\ \E r \in {handle_client(conn, msg, peer_gone, outcome)} :
         /\ request_times' = r.rt
         /\ failed_attempts' = r.lim.failed_attempts
         /\ blocked_clients' = r.lim.blocked_clients
         /\ open_socks' = IF r.closed THEN open_socks \ {conn.sock}
                          ELSE open_socks
         /\ last' = LastRecord(conn, msg, peer_gone, r)
         /\ recent_ok' = IF r.rate_ok /\ enable_rate_limit
                         THEN [recent_ok EXCEPT ![conn.pid] =
                                 LastN(Append(@, now), rate_limit.requests)]
                         ELSE recent_ok
         /\ IF enable_threading
            THEN UNCHANGED <<running, server_pc>>
            ELSE IF r.raised
                 THEN running' = FALSE /\ server_pc' = "stopped"
                 ELSE running' = running /\ server_pc' = "accept"
         /\ executables' = r.executables
    /\ pending' = pending \ {conn}
    /\ UNCHANGED <<now, authConfig, authGhost, rateConfig, rateGhost,
                   serverConfig, loop_client, recvVars, valVars, loadVars,
                   max_output_size, exec_call, shutVars, thrVars>>

\* time passes while the server runs
ServerTick ==
    /\ now < MaxServerTime
    /\ now' = now + 1
    /\ UNCHANGED <<authVars, rateVars, serverVars, extVars>>

Next ==
    \/ ServerTick
    \/ \E pid \in Pids, sid \in SockIds : Accept(pid, sid)
    \/ \E conn \in pending, msg \in Messages, peer_gone \in BOOLEAN :
          \E outcome \in OutcomesOf(msg) :
            HandleClient(conn, msg, peer_gone, outcome)

Spec == Init /\ [][Next]_vars

----------------------------------------------------------------------------
(* One connection, byte by byte: handle_client in receive_full_message and *)
(* what it answers when the loop has ended.                                *)

\* all byte sequences of at most n bytes
RECURSIVE SeqsUpTo(_)
SeqsUpTo(n) ==
    IF n = 0 THEN {<<>>}
    ELSE LET shorter == SeqsUpTo(n - 1) IN
         shorter \cup {Append(q, b) : q \in {x \in shorter : Len(x) = n - 1},
                                      b \in Bytes}

\* {"e-acute":1}, {"1":1}, the first followed by a blank, and the first
\* with a stray continuation byte in place of the colon
LongWires ==
    {<<123, 34, 195, 169, 34, 58, 49, 125>>,
     <<123, 34, 49, 34, 58, 49, 125>>,
     <<123, 34, 195, 169, 34, 58, 49, 125, 32>>,
     <<123, 34, 195, 169, 34, 169, 49, 125>>}

Wires == SeqsUpTo(MaxWireLen) \cup LongWires

InitRecv ==
    /\ max_request_size \in {SmallRequestSize, MaxRequestSize}
    /\ wire \in Wires
    /\ InitRecvState
    /\ InitAuthQuiet /\ InitRateQuiet /\ InitServerQuiet /\ InitValQuiet
    /\ InitLoadQuiet /\ InitExecQuiet /\ InitShutQuiet /\ InitThrQuiet

\* what recv can do next: return the next n bytes ("chunk"), raise
\* socket.timeout because nothing arrived for 5 seconds ("timeout"), or
\* return b"" because the peer has sent everything and closed its end
\* ("eof")
RecvEnabled(event, n) ==
    CASE event = "chunk" -> n >= 1 /\ n <= RecvSize /\ sent + n <= Len(wire)
      [] event = "timeout" -> n = 0
      [] OTHER -> n = 0 /\ sent = Len(wire)

\* one recv of receive_full_message and the pass of the loop it starts;
\* when that ends receive_full_message, the rest of handle_client runs
Recv(event, n) ==
    /\ recv_pc = "recv"
    /\ RecvEnabled(event, n)
    /\ LET r == CASE event = "chunk" ->
                        receive_chunk(data, SubSeq(wire, sent + 1, sent + n),
                                      max_request_size)
                  [] event = "timeout" -> receive_timeout(data)
                  [] OTHER -> receive_eof(data)
       IN \E msg \in RecvMessages :
            /\ msg = MessageOf(r)
            /\ data' = r.data
            /\ recv_pc' = r.pc
            /\ recv_result' = [text |-> r.text, error |-> r.error]
            /\ recv_event' = event
            /\ recvs' = recvs + 1
            /\ sent' = sent + n
            /\ IF r.pc = "recv"
               THEN UNCHANGED <<recv_answer, request_times, failed_attempts,
                                blocked_clients, executables>>
               ELSE \E h \in {handle_client(RecvConn, msg, FALSE, "exit0")} :
                    /\ executables' = h.executables
                    /\ recv_answer' = [error |-> h.response.error,
                                       handler |-> h.handler, argv |-> h.argv,
                                       closed |-> h.closed]
                    /\ request_times' = h.rt
                    /\ failed_attempts' = h.lim.failed_attempts
                    /\ blocked_clients' = h.lim.blocked_clients
    /\ UNCHANGED <<now, authConfig, authGhost, rateConfig, rateGhost,
                   serverVars, max_request_size, wire, valVars, loadVars,
                   max_output_size, exec_call, shutVars, thrVars>>

NextRecv ==
    \E event \in {"chunk", "timeout", "eof"}, n \in 0..MaxRequestSize + 1 :
        Recv(event, n)

SpecRecv == InitRecv /\ [][NextRecv]_vars

\* a recv call comes back: one more pass of the loop has been counted
RecvReturns == recv_pc = "recv" /\ recvs' = recvs + 1

\* settimeout(5.0): every recv returns, with bytes, with b"" or with
\* socket.timeout, so the loop never waits at recv for ever
SpecRecvLive == InitRecv /\ [][NextRecv]_vars /\ WF_recvs(RecvReturns)

----------------------------------------------------------------------------
(* validate_parameter_value and validate_request on their own: one call   *)
(* with any value and any parameter declaration, or with any request.      *)

\* all sequences of at most n characters
RECURSIVE CharSeqs(_)
CharSeqs(n) ==
    IF n = 0 THEN {<<>>}
    ELSE LET shorter == CharSeqs(n - 1) IN
         shorter \cup {Append(q, c) : q \in {x \in shorter : Len(x) = n - 1},
                                      c \in {"a", "1", "\n"}}

ParamValues ==
    {CharsValue(c) : c \in CharSeqs(MaxChars)}
    \cup {NumValue("0"), NumValue("1"), NumValue("7"), BoolValue(TRUE),
          BoolValue(FALSE), ListValue}

ParamConfigs ==
    [name : {"p"}, type : {"string", "number", "boolean"}, required : {FALSE},
     style : {"argument"}, max_length : {-1, 2},
     pattern : {NoPattern} \cup Patterns,
     enum : {NoEnum, {CharsValue(<<"a">>), NumValue("1")}}, empty : {FALSE}]

\* the request has no such key in 'parameters'
Absent == [type |-> "absent", str |-> "", len |-> 0]

\* the items of request['parameters'], given the value of every name
Items(level, count, long, word) ==
    SelectSeq(<< <<"level", level>>, <<"count", count>>, <<"long", long>>,
                 <<"word", word>> >>,
              LAMBDA item : item[2] # Absent)

ProbeRequests ==
    {[command |-> "probe", parameters |-> Items(level, count, long, word),
      hash |-> GoodHash, request_id |-> NoRequestId] :
        level \in {Absent, NullValue, StrValue("info", 4), StrValue("loud", 4),
                   NumValue("1")},
        count \in {Absent, NullValue, NumValue("7"), StrValue("7", 1)},
        long \in {Absent, BoolValue(TRUE), NumValue("1"), StrValue("true", 4)},
        word \in {Absent, NullValue, CharsValue(<<"a">>),
                  CharsValue(<<"a", "1">>), CharsValue(<<"a", "a", "a">>)}}

ValidatedRequests ==
    ProbeRequests
    \cup [command : {NoCommand, "__ping__", "__introspect__", "rm", "date",
                     "echo"},
          parameters : ParameterLists, hash : {GoodHash},
          request_id : {NoRequestId}]

InitValidate ==
    /\ InitValQuiet
    /\ InitRecvQuiet
    /\ InitLoadQuiet /\ InitExecQuiet /\ InitShutQuiet /\ InitThrQuiet
    /\ InitAuthQuiet /\ InitRateQuiet /\ InitServerQuiet

ValidateParameterValueCall(value, param_config) ==
    /\ val_call.kind = "none"
    /\ val_call' = [kind |-> "param", value |-> value,
                    param_config |-> param_config, request |-> NoRequest,
                    valid |-> validate_parameter_value(value, param_config),
                    error |-> ""]
    /\ UNCHANGED <<now, authVars, rateVars, serverVars, recvVars, loadVars,
                   execVars, shutVars, thrVars>>

ValidateRequestCall(request) ==
    LET r == validate_request(request) IN
    /\ val_call.kind = "none"
    /\ val_call' = [kind |-> "request", value |-> NullValue,
                    param_config |-> NoParamConfig, request |-> request,
                    valid |-> r.valid, error |-> r.error]
    /\ UNCHANGED <<now, authVars, rateVars, serverVars, recvVars, loadVars,
                   execVars, shutVars, thrVars>>

NextValidate ==
    \/ \E value \in ParamValues, param_config \in ParamConfigs :
          ValidateParameterValueCall(value, param_config)
    \/ \E request \in ValidatedRequests : ValidateRequestCall(request)

SpecValidate == InitValidate /\ [][NextValidate]_vars

----------------------------------------------------------------------------
(* Start of the process: ConfigurableSocketServer(config_path), then       *)
(* start_server, for any configuration file and environment.               *)

\* /b and /b/
AllowedDirLists ==
    {{}, {<<"/", "b">>}, {<<"/", "b", "/">>}}

\* /b/x  /bx/x  /b/../t/x  /t/x  /b/n  /b/z  x  ../t/x
Binaries ==
    {<<"/", "b", "/", "x">>,
     <<"/", "b", "x", "/", "x">>,
     <<"/", "b", "/", ".", ".", "/", "t", "/", "x">>,
     <<"/", "t", "/", "x">>,
     <<"/", "b", "/", "n">>,
     <<"/", "b", "/", "z">>,
     <<"x">>,
     <<".", ".", "/", "t", "/", "x">>}

\* cmd_config['executable'] of one command
Executables == {NoExecutable, <<>>} \cup {<<b>> : b \in Binaries}

\* the executables of config['commands'], in the order of the file
CommandLists ==
    {<<>>} \cup {<<e>> : e \in Executables}
    \cup {<< <<<<"/", "b", "/", "x">>>>, e >> : e \in Executables}

\* the PATH of the env execute_command gives the subprocesses: /b and
\* /t:/b
PathLists ==
    {<< <<"/", "b">> >>, << <<"/", "t">>, <<"/", "b">> >>}

Configs ==
    [well_formed : BOOLEAN,
     missing : {"none", "name", "socket_path", "commands"},
     commands : CommandLists,
     allowed_executable_dirs : AllowedDirLists,
     auth_enabled : {Unset, "true", "false"},
     auth_token_hash : {MissingHash, EmptyHash, GoodHash},
     path : PathLists]

Environments ==
    [AUTH_ENABLED : {Unset, "true"},
     AUTH_TOKEN_HASH : {MissingHash, EmptyHash, GoodHash},
     AUTH_TOKEN : {Unset, "secret"}]

InitLoad ==
    /\ config \in Configs
    /\ env \in Environments
    /\ load_pc = "new"
    /\ server_socket = "none"
    /\ program = NoProgram
    /\ auth_enabled = FALSE
    /\ auth_token_hash = MissingHash
    /\ max_attempts = 1
    /\ window_seconds = 1
    /\ block_duration = 1
    /\ InitAuthState
    /\ InitRateQuiet /\ InitServerQuiet /\ InitRecvQuiet /\ InitValQuiet
    /\ InitExecQuiet /\ InitShutQuiet /\ InitThrQuiet

\* ConfigurableSocketServer(config_path)
Construct ==
    LET r == construct(config, env) IN
    /\ load_pc = "new"
    /\ load_pc' = IF r.ok THEN "constructed" ELSE "exited"
    /\ auth_enabled' = r.auth_enabled
    /\ auth_token_hash' = r.auth_token_hash
    /\ UNCHANGED <<now, max_attempts, window_seconds, block_duration,
                   authState, authGhost, rateVars, serverVars, recvVars,
                   valVars, config, env, server_socket, program, execVars,
                   shutVars, thrVars>>

\* start_server up to listen()
StartServer ==
    /\ load_pc = "constructed"
    /\ load_pc' = "serving"
    /\ server_socket' = "bound"
    /\ UNCHANGED <<now, authVars, rateVars, serverVars, recvVars, valVars,
                   config, env, program, execVars, shutVars, thrVars>>

\* subprocess.run(executable, env=env, cwd=cwd) for command i: the child
\* executes executable[0] itself when it holds a slash, from the working
\* directory; otherwise the first file of that name that can be executed
\* in the directories of the PATH of env
RunCommand(i) ==
    /\ load_pc = "serving"
    /\ program = NoProgram
    /\ i \in 1..Len(config.commands)
    /\ program' = [command |-> i] @@ exec_file(config.commands[i][1], config.path)
    /\ UNCHANGED <<now, authVars, rateVars, serverVars, recvVars, valVars,
                   config, env, load_pc, server_socket, execVars, shutVars,
                   thrVars>>

NextLoad == Construct \/ StartServer \/ \E i \in 1..MaxCommands : RunCommand(i)

SpecLoad == InitLoad /\ [][NextLoad]_vars

----------------------------------------------------------------------------
(* execute_command on its own: one call with any validated request and any *)
(* behaviour of the subprocess.                                            *)

\* all sequences of at most n of the code points chars
RECURSIVE TextsUpTo(_, _)
TextsUpTo(chars, n) ==
    IF n = 0 THEN {<<>>}
    ELSE LET shorter == TextsUpTo(chars, n - 1) IN
         shorter \cup {Append(q, c) : q \in {x \in shorter : Len(x) = n - 1},
                                      c \in chars}

\* what the subprocess may do: end at once having written any text of
\* blanks, digits 1 and letters x, run for 2, 6 or 11 seconds, or not start
Procs ==
    {QuickProc(returncode, stdout, stderr) :
        returncode \in {0, 1}, stdout \in TextsUpTo({32, 49, 120}, MaxOutputLen),
        stderr \in TextsUpTo({32, 120}, MaxOutputLen)}
    \cup {[QuickProc(0, <<120>>, <<>>) EXCEPT !.duration = d] : d \in {2, 6, 11}}
    \cup {[QuickProc(0, <<>>, <<>>) EXCEPT !.startable = FALSE]}

ExecRequests ==
    [command : {"__ping__", "date"}, parameters : {<<>>}, hash : {GoodHash},
     request_id : {NoRequestId}]
    \cup
    [command : {"echo"}, parameters : {<< <<"message", StrValue("hi", 2)>> >>},
     hash : {GoodHash}, request_id : {NoRequestId}]
    \cup
    [command : {"probe"},
     parameters : {<< <<"word", CharsValue(<<"a", "b">>)>>,
                      <<"level", StrValue("info", 4)>>,
                      <<"long", BoolValue(TRUE)>> >>},
     hash : {GoodHash}, request_id : {NoRequestId}]
    \cup
    [command : {"query"},
     parameters : {<<>>,
                   << <<"tab", StrValue("v", 1)>> >>,
                   << <<"arg", NullValue>> >>,
                   << <<"extra", StrValue("x", 1)>>, <<"indent", NumValue("2")>>,
                      <<"arg", StrValue("a", 1)>> >>},
     hash : {GoodHash}, request_id : {NoRequestId}]

InitExec ==
    /\ now = 0
    /\ max_output_size \in 0..MaxOutputSize
    /\ executables = InitExecutables
    /\ exec_call = NoExecCall
    /\ InitAuthQuiet /\ InitRateQuiet /\ InitServerQuiet
    /\ InitRecvQuiet /\ InitValQuiet /\ InitLoadQuiet /\ InitShutQuiet /\ InitThrQuiet

\* handle_client calls execute_command with the requests validate_request
\* accepts
ExecuteCommandCall(request, proc) ==
    /\ exec_call.kind = "none"
    /\ validate_request(request).valid
    /\ \E r \in {execute_process(request, proc)} :
         /\ exec_call' = [kind |-> r.handler, request |-> request,
                          proc |-> proc, argv |-> r.argv,
                          response |-> r.response, child |-> r.child]
         /\ executables' = r.executables
    /\ UNCHANGED <<now, authVars, rateVars, serverVars, recvVars, valVars,
                   loadVars, max_output_size, shutVars, thrVars>>

NextExec == \E request \in ExecRequests, proc \in Procs : ExecuteCommandCall(request, proc)

SpecExec == InitExec /\ [][NextExec]_vars

----------------------------------------------------------------------------
(* The main thread from the two signal.signal calls of main to the end of  *)
(* the process, the threads of the connections, and a termination signal.  *)
(* Python runs signal_handler in the main thread between two of its        *)
(* instructions; a system call the signal interrupts is called again when  *)
(* the handler has returned.                                               *)

ShutdownConns == 1..MaxShutdownConns

\* what the steps of this part leave alone
shutdownFrame ==
    <<now, authVars, rateVars, peer_cred, debug, server_pc, loop_client,
      pending, open_socks, recent_ok, last, recvVars, valVars, config, env,
      load_pc, program, execVars, thrVars>>

InitShutdown ==
    /\ now = 0
    /\ enable_threading \in BOOLEAN
    /\ running = FALSE
    /\ server_socket = "none"
    /\ start_pc = "start"
    /\ socket_file \in BOOLEAN
    /\ signalled = FALSE
    /\ handling = {}
    /\ answered = {}
    /\ caught = {}
    /\ late = {}
    /\ peer_cred = TRUE /\ debug = FALSE
    /\ server_pc = "accept" /\ loop_client = 0 /\ pending = {}
    /\ open_socks = {} /\ recent_ok = [p \in Pids |-> <<>>] /\ last = NoLast
    /\ config = NoConfig /\ env = NoEnv /\ load_pc = "constructed"
    /\ program = NoProgram
    /\ InitAuthQuiet /\ InitRateQuiet /\ InitRecvQuiet /\ InitValQuiet
    /\ InitExecQuiet /\ InitThrQuiet

\* signal_handler, once: SIGINT or SIGTERM while the process lives
signal_handler ==
    /\ start_pc # "exited"
    /\ ~signalled
    /\ signalled' = TRUE
    /\ running' = FALSE
    /\ server_socket' = IF server_socket = "none" THEN "none" ELSE "closed"
    /\ caught' = handling
    /\ UNCHANGED <<enable_threading, start_pc, socket_file, handling, answered,
                   late, shutdownFrame>>

\* start_server leaves its try statement for cleanup()
ToCleanup ==
    /\ start_pc' = "cleanup"
    /\ UNCHANGED <<enable_threading, running, server_socket, socket_file,
                   signalled, handling, answered, caught, late, shutdownFrame>>

\* the old socket file is removed and the socket is created
CreateSocket ==
    /\ start_pc = "start"
    /\ start_pc' = "created"
    /\ socket_file' = FALSE
    /\ server_socket' = "created"
    /\ UNCHANGED <<enable_threading, running, signalled, handling, answered,
                   caught, late, shutdownFrame>>

\* bind; OSError on a socket that signal_handler has closed
Bind ==
    /\ start_pc = "created"
    /\ IF server_socket = "closed" THEN ToCleanup
       ELSE /\ start_pc' = "bound"
            /\ server_socket' = "bound"
            /\ socket_file' = TRUE
            /\ UNCHANGED <<enable_threading, running, signalled, handling,
                           answered, caught, late, shutdownFrame>>

\* chmod and listen; OSError on a closed socket
Listen ==
    /\ start_pc = "bound"
    /\ IF server_socket = "closed" THEN ToCleanup
       ELSE /\ start_pc' = "listening"
            /\ UNCHANGED <<enable_threading, running, server_socket,
                           socket_file, signalled, handling, answered, caught,
                           late, shutdownFrame>>

\* self.running = True
SetRunning ==
    /\ start_pc = "listening"
    /\ start_pc' = "loop"
    /\ running' = TRUE
    /\ UNCHANGED <<enable_threading, server_socket, socket_file, signalled,
                   handling, answered, caught, late, shutdownFrame>>

\* while self.running
LoopTest ==
    /\ start_pc = "loop"
    /\ start_pc' = IF running THEN "accept" ELSE "cleanup"
    /\ UNCHANGED <<enable_threading, running, server_socket, socket_file,
                   signalled, handling, answered, caught, late, shutdownFrame>>

\* accept returns the connection c; its handle_client starts in a new
\* thread, or in the main thread
AcceptClient(c) ==
    /\ start_pc = "accept"
    /\ server_socket = "bound"
    /\ c \notin handling \cup answered
    /\ handling' = handling \cup {c}
    /\ late' = IF signalled THEN late \cup {c} ELSE late
    /\ start_pc' = IF enable_threading THEN "loop" ELSE "inline"
    /\ UNCHANGED <<enable_threading, running, server_socket, socket_file,
                   signalled, answered, caught, shutdownFrame>>

\* accept raises OSError on the closed socket: `break` when running is
\* false, `raise` into `except Exception` when it is true
AcceptRaises ==
    /\ start_pc = "accept"
    /\ server_socket = "closed"
    /\ ToCleanup

\* handle_client returns in the main thread
InlineReturns(c) ==
    /\ start_pc = "inline"
    /\ c \in handling
    /\ handling' = handling \ {c}
    /\ answered' = answered \cup {c}
    /\ start_pc' = "loop"
    /\ UNCHANGED <<enable_threading, running, server_socket, socket_file,
                   signalled, caught, late, shutdownFrame>>

\* handle_client returns in the thread of connection c
ThreadReturns(c) ==
    /\ enable_threading
    /\ start_pc # "exited"
    /\ c \in handling
    /\ handling' = handling \ {c}
    /\ answered' = answered \cup {c}
    /\ UNCHANGED <<enable_threading, running, server_socket, start_pc,
                   socket_file, signalled, caught, late, shutdownFrame>>

cleanup ==
    /\ start_pc = "cleanup"
    /\ start_pc' = "returned"
    /\ running' = FALSE
    /\ server_socket' = IF server_socket = "none" THEN "none" ELSE "closed"
    /\ socket_file' = FALSE
    /\ UNCHANGED <<enable_threading, signalled, handling, answered, caught,
                   late, shutdownFrame>>

\* main returns and the interpreter ends: it does not wait for the threads
\* of the connections, which are daemon threads
ProcessExits ==
    /\ start_pc = "returned"
    /\ start_pc' = "exited"
    /\ UNCHANGED <<enable_threading, running, server_socket, socket_file,
                   signalled, handling, answered, caught, late, shutdownFrame>>

\* the steps the process takes by itself
ServerStep ==
    \/ CreateSocket \/ Bind \/ Listen \/ SetRunning \/ LoopTest
    \/ AcceptRaises \/ cleanup \/ ProcessExits
    \/ \E c \in ShutdownConns : InlineReturns(c) \/ ThreadReturns(c)

NextShutdown ==
    \/ ServerStep
    \/ signal_handler
    \/ \E c \in ShutdownConns : AcceptClient(c)

\* the process goes on while it can; no client has to connect and no
\* signal has to come
SpecShutdown ==
    InitShutdown /\ [][NextShutdown]_vars /\ WF_vars(ServerStep)

----------------------------------------------------------------------------
(* validate_auth in the threads of the connections (enable_threading).     *)
(* The code takes no lock: a thread can be suspended between any two       *)
(* calls of the AuthRateLimiter, and another thread then runs on the same  *)
(* maps.  Each method of the limiter is one step here, and all the calls   *)
(* fall into one second.                                                   *)

threadFrame ==
    <<now, authConfig, authGhost, rateVars, serverVars, recvVars, valVars,
      loadVars, execVars, shutVars>>

InitThreads ==
    /\ InitAuthConfig /\ InitAuthState /\ InitRateQuiet
    /\ enable_threading = TRUE /\ peer_cred = TRUE /\ debug = FALSE
    /\ InitServerState
    /\ InitRecvQuiet /\ InitValQuiet /\ InitLoadQuiet /\ InitExecQuiet
    /\ InitShutQuiet /\ InitThrQuiet

\* validate_auth of thread w returns
Returned(w, valid, error) ==
    [auth_threads EXCEPT ![w].pc = "returned", ![w].valid = valid,
                         ![w].error = error]

\* the thread of a connection calls validate_auth
EnterValidateAuth(w, client_id, hash) ==
    /\ auth_threads[w].pc = "idle"
    /\ auth_threads' =
         IF auth_enabled
         THEN [auth_threads EXCEPT ![w].pc = "check", ![w].client = client_id,
                                   ![w].hash = hash]
         ELSE [auth_threads EXCEPT ![w].pc = "returned", ![w].client = client_id,
                                   ![w].hash = hash, ![w].valid = TRUE]
    /\ UNCHANGED <<failed_attempts, blocked_clients, threadFrame>>

\* the first check_rate_limit, and the comparison of the hash
CheckBlocked(w) ==
    /\ auth_threads[w].pc = "check"
    /\ \E c1 \in {auth_check_rate_limit(Limiter, auth_threads[w].client, now)} :
         /\ failed_attempts' = c1.lim.failed_attempts
         /\ blocked_clients' = c1.lim.blocked_clients
         /\ auth_threads' =
              IF ~c1.ok THEN Returned(w, FALSE, "rate_limited")
              ELSE [auth_threads EXCEPT ![w].pc =
                      IF Truthy(auth_threads[w].hash)
                         /\ auth_threads[w].hash = auth_token_hash
                      THEN "recheck" ELSE "record"]
    /\ UNCHANGED threadFrame

\* record_failure after a hash that did not match
RecordFailure(w) ==
    /\ auth_threads[w].pc = "record"
    /\ \E l2 \in {record_failure(Limiter, auth_threads[w].client, now)} :
         /\ failed_attempts' = l2.failed_attempts
         /\ blocked_clients' = l2.blocked_clients
    /\ auth_threads' = [auth_threads EXCEPT ![w].pc = "failed"]
    /\ UNCHANGED threadFrame

\* the check_rate_limit that follows record_failure
CheckAfterFailure(w) ==
    /\ auth_threads[w].pc = "failed"
    /\ \E c2 \in {auth_check_rate_limit(Limiter, auth_threads[w].client, now)} :
         /\ failed_attempts' = c2.lim.failed_attempts
         /\ blocked_clients' = c2.lim.blocked_clients
         /\ auth_threads' = Returned(w, FALSE, IF ~c2.ok THEN "rate_limited"
                                               ELSE "auth_failed")
    /\ UNCHANGED threadFrame

\* the check_rate_limit that follows a matching hash
CheckBeforeSuccess(w) ==
    /\ auth_threads[w].pc = "recheck"
    /\ \E c3 \in {auth_check_rate_limit(Limiter, auth_threads[w].client, now)} :
         /\ failed_attempts' = c3.lim.failed_attempts
         /\ blocked_clients' = c3.lim.blocked_clients
         /\ auth_threads' =
              IF ~c3.ok THEN Returned(w, FALSE, "rate_limited")
              ELSE [auth_threads EXCEPT ![w].pc = "success"]
    /\ UNCHANGED threadFrame

\* record_success and the return of (True, "")
RecordSuccess(w) ==
    /\ auth_threads[w].pc = "success"
    /\ \E l \in {record_success(Limiter, auth_threads[w].client)} :
         /\ failed_attempts' = l.failed_attempts
         /\ blocked_clients' = l.blocked_clients
    /\ auth_threads' = Returned(w, TRUE, "")
    /\ UNCHANGED threadFrame

NextThreads ==
    \/ \E w \in Workers, p \in Pids, h \in Hashes :
          EnterValidateAuth(w, process_id(p), h)
    \/ \E w \in Workers :
          \/ CheckBlocked(w)
          \/ RecordFailure(w)
          \/ CheckAfterFailure(w)
          \/ CheckBeforeSuccess(w)
          \/ RecordSuccess(w)

SpecThreads == InitThreads /\ [][NextThreads]_vars

----------------------------------------------------------------------------
(* Claims about the authentication lockout (SpecAuth) *)

AuthCalled == auth_enabled /\ auth_call.client # NoClient

\* the hash of the last call is missing, empty or not the configured one
WrongHash == ~(Truthy(auth_call.hash) /\ auth_call.hash = auth_token_hash)

\* C2: a client without an active block whose attempt count inside the
\* window is k < max_attempts and that presents a wrong hash is answered
\* auth_failed when k + 1 < max_attempts and is left unblocked; when
\* k + 1 = max_attempts it is answered rate_limited and is blocked until
\* the time of that failure plus block_duration.
C2_LockoutOnMthFailure ==
    (AuthCalled /\ WrongHash /\ ~auth_call.pre_active
        /\ auth_call.pre_count < max_attempts)
    => /\ ~auth_call.valid
       /\ IF auth_call.pre_count + 1 < max_attempts
          THEN /\ auth_call.error = "auth_failed"
               /\ blocked_clients[auth_call.client] = NoBlock
          ELSE /\ auth_call.error = "rate_limited"
               /\ blocked_clients[auth_call.client] = auth_call.t + block_duration

\* the second of two failures inside one window has blocked the client
C2_Witness ==
    /\ AuthCalled /\ WrongHash /\ ~auth_call.pre_active
    /\ max_attempts = 2
    /\ auth_call.pre_count = 1
    /\ auth_call.error = "rate_limited"
    /\ blocked_clients[auth_call.client] = auth_call.t + block_duration

\* C3: a call of a client whose block is active fails with rate_limited
\* whatever hash it presents, and no step removes or changes a block that
\* is still active after the step.
C3_BlockRunsFullDuration ==
    /\ [](AuthCalled /\ auth_call.pre_active
            => ~auth_call.valid /\ auth_call.error = "rate_limited")
    /\ [][\A c \in ClientIds :
            (blocked_clients[c] # NoBlock /\ now' < blocked_clients[c])
            => blocked_clients'[c] = blocked_clients[c]]_vars

\* a blocked client presents the correct hash after the failure window has
\* elapsed, the block being longer than the window, and is still refused
C3_Witness ==
    /\ AuthCalled /\ auth_call.pre_active
    /\ auth_call.hash = GoodHash
    /\ block_duration > window_seconds
    /\ block_began[auth_call.client] # NoBlock
    /\ auth_call.t - block_began[auth_call.client] >= window_seconds
    /\ auth_call.error = "rate_limited"
    /\ blocked_clients[auth_call.client] = auth_call.pre_until

\* C4: a call with the correct hash made at least block_duration seconds
\* after the failure that blocked the client succeeds.
C4_CorrectHashAfterBlock ==
    (AuthCalled /\ auth_call.hash = GoodHash
        /\ block_began[auth_call.client] # NoBlock
        /\ auth_call.t >= block_began[auth_call.client] + block_duration)
    => auth_call.valid

----------------------------------------------------------------------------
(* Claims about the request rate limiter (SpecRate) *)

RateCalled == enable_rate_limit /\ rate_call.client # NoClient

\* C5: a call made when rate_limit.requests accepted calls of the same
\* client id lie less than rate_limit.window seconds back returns False and
\* leaves no timestamp; the accepted calls of a client id inside any
\* trailing window are at most rate_limit.requests; a call made more than
\* rate_limit.window seconds after every accepted call returns True.
C5_SlidingWindow ==
    /\ (RateCalled /\ rate_call.pre_recent >= rate_limit.requests)
        => /\ ~rate_call.ok
           /\ Len(accepted[rate_call.client]) = rate_call.pre_len
           /\ Len(request_times[rate_call.client]) = rate_call.pre_recent
    /\ enable_rate_limit
        => \A c \in ClientIds, T \in 0..now :
              Recent(accepted[c], T, rate_limit.window) <= rate_limit.requests
    /\ (RateCalled /\ rate_call.t - rate_call.pre_latest > rate_limit.window)
        => rate_call.ok

\* a call is refused after rate_limit.requests accepted calls inside the
\* window, the latest of which was accepted more than a window after the
\* one before it
C5_Witness ==
    /\ RateCalled
    /\ rate_call.pre_recent = rate_limit.requests
    /\ ~rate_call.ok
    /\ \E i \in 1..(Len(accepted[rate_call.client]) - 1) :
          accepted[rate_call.client][i + 1] - accepted[rate_call.client][i]
              > rate_limit.window

----------------------------------------------------------------------------
(* Claims about handle_client and the server loop (Spec) *)

LastRequest == last.msg.request

\* the last connection carried a JSON object and handle_client read it
ReadRequest == last.handled /\ last.rate_ok /\ last.msg.kind = "request"

\* the hash of the last request is the configured one
RightHash ==
    Truthy(LastRequest.hash) /\ LastRequest.hash = auth_token_hash

\* a command handler ran for the last connection
HandlerRan ==
    last.handler # "none" \/ last.argv # <<>> \/ last.response.success

\* C1: with authentication enabled, a handler (subprocess, ping or
\* introspection) runs for a connection only when its request carries the
\* configured hash and its client had no active block; a request whose
\* hash is missing, empty or different gets a failure response.
C1_AuthGate ==
    (auth_enabled /\ last.handled)
    => /\ HandlerRan => ReadRequest /\ RightHash /\ ~last.pre_locked
       /\ (last.msg.kind = "request" /\ ~RightHash)
            => ~last.response.success /\ last.response.error # ""
       /\ (ReadRequest /\ ~RightHash)
            => last.response.error
                    \in {"Authentication failed",
                         "Too many failed authentication attempts"}

\* a locked-out client presents the configured hash and is refused
C1_Witness ==
    /\ auth_enabled /\ ReadRequest /\ RightHash
    /\ last.pre_locked
    /\ ~HandlerRan
    /\ last.response.error = "Too many failed authentication attempts"

\* C6: a request of a process that follows rate_limit.requests requests of
\* the same process which passed the rate check less than
\* rate_limit.window seconds ago is answered 'Rate limit exceeded' with
\* retry_after = rate_limit.window, whatever command it names.
C6_ProcessRateLimited ==
    (enable_rate_limit /\ last.handled
        /\ last.pre_recent >= rate_limit.requests)
    => /\ last.response.error = "Rate limit exceeded"
       /\ last.response.retry_after = rate_limit.window

\* the executable list of the command the last request names
LastExecutable == Commands[LastRequest.command].executable

\* C7: a subprocess is started only for a request that passed the rate
\* check and authentication and that validate_request accepts, and its
\* argv begins with the executable list of the command the request names.
C7_SpawnOnlyValidated ==
    last.handled
    => /\ last.argv # <<>>
            => /\ ReadRequest
               /\ last.auth = "ok"
               /\ validate_request(LastRequest).valid
               /\ LastRequest.command \in CommandNames
               /\ Len(last.argv) >= Len(LastExecutable)
               /\ SubSeq(last.argv, 1, Len(LastExecutable)) = LastExecutable
       /\ (~last.rate_ok \/ last.auth # "ok"
            \/ (ReadRequest /\ ~validate_request(LastRequest).valid))
            => last.argv = <<>> /\ last.handler # "subprocess"

\* echo was started with the declared parameter of a request that also
\* carries an undeclared one
C7_Witness ==
    /\ ReadRequest
    /\ Len(LastRequest.parameters) = 2
    /\ last.argv = <<"echo", "hi">>
    /\ last.handler = "subprocess"

\* C8: after a connection that ended in a protocol error the server loop
\* is still running and accepts connections.
C8_ServesAfterProtocolError ==
    (last.handled /\ last.rate_ok /\ last.msg.kind \in ProtocolErrors)
    => running /\ server_pc # "stopped"

\* C9: no socket stays open once its handle_client call has ended,
\* whichever way the call ended.
C9_AlwaysClosed ==
    /\ open_socks \subseteq {c.sock : c \in pending}
    /\ last.handled => last.closed /\ last.conn.sock \notin open_socks

\* the connection was closed although both sends of its handler raised
C9_Witness ==
    /\ last.handled
    /\ last.raised
    /\ last.writes = 2
    /\ last.closed
    /\ last.conn.sock \notin open_socks

\* C10: the response to a request that carries request_id carries the
\* same request_id.
C10_RequestIdEchoed ==
    (last.handled /\ last.msg.kind = "request"
        /\ LastRequest.request_id # NoRequestId)
    => last.response.request_id = LastRequest.request_id

----------------------------------------------------------------------------
(* Claims about receive_full_message (SpecRecv) *)

WireText == utf8_decode(wire)

\* the peer sends one JSON object, as json.dumps writes it, in valid UTF-8
\* and within the size limit
IsRequestWire ==
    /\ Len(wire) <= max_request_size
    /\ WireText.ok
    /\ json_loads(WireText.text)
    /\ WireText.text[1] = 123
    /\ WireText.text[Len(WireText.text)] = 125

ReceiveEnded == recv_pc # "recv"

\* C11: when the bytes of a JSON request of at most max_request_size bytes
\* in valid UTF-8 have arrived, in chunks of any sizes and without a
\* timeout, receive_full_message has returned the text of the request.
C11_ChunkedRoundTrip ==
    (IsRequestWire /\ recv_event = "chunk" /\ ReceiveEnded)
    => recv_pc = "returned" /\ recv_result.text = WireText.text

\* the state part of C12
SizeCeiling ==
    /\ recv_pc = "returned"
         => /\ Len(data) <= max_request_size
            /\ recv_result.text = utf8_decode(data).text
    /\ Len(data) > max_request_size
         => recv_pc = "raised" /\ recv_result.error = TooLarge
    /\ Len(data) <= max_request_size => recv_result.error # TooLarge

\* C12: the bytes of a returned message number at most max_request_size;
\* a buffer above max_request_size has raised 'Request too large' and no
\* recv is made after that; a buffer of at most max_request_size bytes,
\* max_request_size itself included, is never rejected for its size.
C12_SizeCeiling ==
    /\ []SizeCeiling
    /\ [][Len(data) > max_request_size => recvs' = recvs]_vars

\* a message of exactly max_request_size bytes was returned
C12_Witness ==
    /\ recv_pc = "returned"
    /\ Len(data) = max_request_size
    /\ recv_event = "chunk"

LoopLeftIdle == recv_event \in {"timeout", "eof"}

\* C13: a timeout or a close of the peer with nothing buffered raises
\* 'Empty request'; with bytes buffered it is no error: the buffered bytes
\* are returned as text, and handle_client answers 'Invalid JSON' when that
\* text is no JSON.
C13_IdleEndsTheMessage ==
    /\ (LoopLeftIdle /\ data = <<>>)
         => /\ recv_pc = "raised"
            /\ recv_result.error = EmptyRequest
            /\ recv_answer.error = EmptyRequest
    /\ (LoopLeftIdle /\ data # <<>>)
         => /\ recv_pc = "returned"
            /\ recv_result.text = utf8_decode(data).text
            /\ ~json_loads(recv_result.text)
                 => recv_answer.error = "Invalid JSON"

\* a timeout after a part of a request: the part is returned and answered
\* with 'Invalid JSON'
C13_Witness ==
    /\ recv_event = "timeout"
    /\ data # <<>> /\ sent < Len(wire)
    /\ recv_pc = "returned"
    /\ recv_answer.error = "Invalid JSON"

----------------------------------------------------------------------------
(* Claims about validate_parameter_value and validate_request              *)
(* (SpecValidate)                                                          *)

ParamCalled == val_call.kind = "param"

\* the declaration constrains nothing but the type
TypeOnly(param_config) ==
    /\ param_config.pattern = NoPattern
    /\ param_config.enum = NoEnum
    /\ param_config.max_length < 0

\* C15: validate_parameter_value accepts a value only if its JSON type is
\* the declared type (string, number or boolean), and accepts every value
\* of the declared type when the declaration constrains nothing else.
C15_ExactType ==
    ParamCalled
    => /\ val_call.valid => val_call.value.type = val_call.param_config.type
       /\ (TypeOnly(val_call.param_config)
            /\ val_call.value.type = val_call.param_config.type)
            => val_call.valid

\* re.fullmatch(pattern, chars) is not None, for the patterns of the model
re_fullmatch(pattern, chars) ==
    /\ Len(chars) >= 1
    /\ \A i \in 1..Len(chars) : chars[i] \in Lower

\* C16: a string value of a parameter that declares a pattern is accepted
\* only if the whole value matches the pattern.
C16_PatternFullMatch ==
    (ParamCalled /\ val_call.valid
        /\ val_call.param_config.type = "string"
        /\ val_call.param_config.pattern # NoPattern)
    => re_fullmatch(val_call.param_config.pattern, val_call.value.str)

RequestCalled == val_call.kind = "request"

\* the value the validated request gives the declared parameter d; None
\* when it gives none
Given(d) == ParamValue(val_call.request.parameters, d.name)

\* the declared parameter d of the validated request fails: it is required
\* and has no value, or it has a value that is invalid
Fails(d) ==
    \/ d.required /\ Given(d) = NullValue
    \/ Given(d) # NullValue /\ ~validate_parameter_value(Given(d), d)

Reason(d) ==
    IF Given(d) = NullValue
    THEN "Missing required parameter: " \o d.name
    ELSE "Invalid value for parameter '" \o d.name \o "'"

\* C17: validate_request rejects a request without 'command', accepts
\* '__introspect__' and '__ping__', rejects a command that is not
\* configured with the list of the configured ones, and otherwise accepts
\* exactly when no declared parameter fails; the rejection names the first
\* declared parameter, in config order, that fails: as missing when it is
\* required and has no value, as invalid when its value is.
C17_ValidateRequest ==
    RequestCalled
    => LET command == val_call.request.command IN
       /\ command = NoCommand
            => ~val_call.valid /\ val_call.error = "Missing 'command' field"
       /\ command \in {"__introspect__", "__ping__"} => val_call.valid
       /\ command \notin CommandNames
                            \cup {NoCommand, "__introspect__", "__ping__"}
            => /\ ~val_call.valid
               /\ val_call.error = "Unknown command '" \o command
                        \o "'. Available: ['echo', 'date', 'probe', 'query', "
                        \o "'__introspect__', '__ping__']"
       /\ command \in CommandNames
            => LET declared == Commands[command].parameters IN
               /\ val_call.valid
                    <=> \A i \in 1..Len(declared) : ~Fails(declared[i])
               /\ \A i \in 1..Len(declared) :
                    (Fails(declared[i])
                        /\ \A j \in 1..(i - 1) : ~Fails(declared[j]))
                    => val_call.error = Reason(declared[i])

\* two declared parameters fail, the later one for its value, and the
\* rejection names the earlier one, which is missing
C17_Witness ==
    /\ RequestCalled
    /\ val_call.request.command = "probe"
    /\ Fails(Commands["probe"].parameters[1])
    /\ Fails(Commands["probe"].parameters[4])
    /\ Given(Commands["probe"].parameters[4]) # NullValue
    /\ ~val_call.valid
    /\ val_call.error = "Missing required parameter: level"

----------------------------------------------------------------------------
(* Claims about the construction of the server (SpecLoad) *)

Constructed == load_pc \in {"constructed", "serving"}

IsPrefix(a, b) == Len(a) < Len(b) /\ SubSeq(b, 1, Len(a)) = a

\* executable[0] leads to an executable file below one of the allowed
\* directories
InsideAllowed(executable) ==
    /\ executable # NoExecutable
    /\ executable # <<>>
    /\ \E d \in config.allowed_executable_dirs :
          LET file == Resolve(join(d, executable[1]))
              dir == Resolve(d)
          IN /\ file.ok /\ dir.ok
             /\ file.at \in ExecutableFiles
             /\ IsPrefix(dir.at, file.at)

\* C18: the server is constructed only if executable[0] of every command
\* leads, '..' and all, to an existing executable file inside one of
\* allowed_executable_dirs.
C18_ExecutablesInsideAllowedDirs ==
    Constructed
    => \A i \in 1..Len(config.commands) : InsideAllowed(config.commands[i])

\* a token hash comes from AUTH_TOKEN_HASH or from the config file
HashConfigured ==
    Truthy(env.AUTH_TOKEN_HASH) \/ Truthy(config.auth_token_hash)

AuthWanted == _load_auth_config(config, env)

\* the cases the construction has to refuse
MustExit ==
    \/ config.missing # "none"
    \/ \E i \in 1..Len(config.commands) : config.commands[i] = NoExecutable
    \/ AuthWanted /\ ~HashConfigured

----------------------------------------------------------------------------
(* Claims about what responses disclose (Spec) *)

\* C20: with debug disabled, no response handed to a client carries the
\* text of an exception, whichever failure it reports.
C20_NoExceptionTextWithoutDebug ==
    (last.handled /\ ~debug) => last.response.details # ExceptionText

----------------------------------------------------------------------------
(* Claims about execute_command (SpecExec) *)

LastCommand == Commands[exec_call.request.command]

\* the last call started a subprocess that ended by itself
RanToCompletion == exec_call.kind = "subprocess" /\ exec_call.child = "exited"

EndsWithMarker(text) ==
    /\ Len(text) >= Len(TruncationMarker)
    /\ SubSeq(text, Len(text) - Len(TruncationMarker) + 1, Len(text))
         = TruncationMarker

\* shown is what the claim says the response holds of the output out
TruncatedAt(out, shown) ==
    /\ Len(out) > max_output_size
         => shown = SubSeq(out, 1, max_output_size) \o TruncationMarker
    /\ Len(out) <= max_output_size => ~EndsWithMarker(shown)
    /\ Len(shown) <= max_output_size + Len(TruncationMarker)

\* C21: in a response that holds the outputs of the command, stdout longer
\* than max_output_size appears as exactly its first max_output_size
\* characters followed by the truncation marker, shorter stdout appears
\* without the marker, what appears is never longer than max_output_size
\* plus the length of the marker, and the same holds for stderr.
C21_OutputTruncation ==
    RanToCompletion /\ "stdout" \in exec_call.response.keys
        => /\ TruncatedAt(exec_call.proc.stdout, exec_call.response.stdout)
           /\ TruncatedAt(exec_call.proc.stderr, exec_call.response.stderr)

\* the argv entries the claim gives a request parameter: those of its style
\* when the command declares it, none when it does not
ClaimedEntries(declared, item) ==
    IF \A i \in 1..Len(declared) : declared[i].name # item[1] THEN <<>>
    ELSE LET style == ParamConfig(declared, item[1]).style IN
         CASE style = "flag" -> <<"--" \o item[1], item[2].str>>
           [] style = "argument" -> <<item[2].str>>
           [] style = "single_flag" -> <<"--" \o item[1] \o "=" \o item[2].str>>
           [] OTHER -> <<>>

RECURSIVE ClaimedArgs(_, _)
ClaimedArgs(declared, params) ==
    IF params = <<>> THEN <<>>
    ELSE ClaimedEntries(declared, Head(params))
            \o ClaimedArgs(declared, Tail(params))

\* C22: the argv handed to subprocess.run is the executable list of the
\* command followed, for each request parameter the command declares, by
\* '--name' and the value (style flag, the default), by the value (style
\* argument) or by '--name=value' (style single_flag), each entry passed as
\* it is, and the executable list kept in the config is what it was.
C22_ArgvByStyle ==
    exec_call.kind = "subprocess"
        => /\ exec_call.argv =
                LastCommand.executable
                    \o ClaimedArgs(LastCommand.parameters,
                                   exec_call.request.parameters)
           /\ executables = InitExecutables

\* the stdout of the last call as a response shows it
ShownStdout == strip(limit_output(exec_call.proc.stdout, max_output_size))

\* C23: when the command ran to completion, success is (returncode = 0);
\* with parse_json set and stdout not empty the response holds
\* parsed_output when stdout is JSON and parse_error when it is not, never
\* both; with parse_json unset or stdout empty it holds neither.
C23_SuccessIsReturncodeZero ==
    RanToCompletion
        => /\ exec_call.response.success = (exec_call.proc.returncode = 0)
           /\ IF LastCommand.response_format.parse_json /\ ShownStdout # <<>>
              THEN /\ ("parsed_output" \in exec_call.response.keys)
                        = json_loads(ShownStdout)
                   /\ ("parse_error" \in exec_call.response.keys)
                        = ~json_loads(ShownStdout)
              ELSE exec_call.response.keys
                        \cap {"parsed_output", "parse_error"} = {}

\* the timeout the claim gives the command of the last call
ClaimedTimeout == IF LastCommand.timeout = -1 THEN 10 ELSE LastCommand.timeout

Overran ==
    /\ exec_call.kind = "subprocess"
    /\ exec_call.proc.startable
    /\ exec_call.proc.duration > ClaimedTimeout

\* C24: when the command runs longer than its timeout, 10 seconds when the
\* config gives none, the response has success false, the error 'Command
\* timeout after <timeout> seconds', neither returncode nor stdout, and the
\* child process has been killed when execute_command returns.
C24_TimeoutKillsChild ==
    Overran
        => /\ ~exec_call.response.success
           /\ exec_call.response.error
                = "Command timeout after " \o ToString(ClaimedTimeout)
                    \o " seconds"
           /\ exec_call.response.keys \cap {"returncode", "stdout"} = {}
           /\ exec_call.child = "killed"

\* a command without 'timeout' that runs for 11 seconds
C24_Witness ==
    /\ Overran
    /\ LastCommand.timeout = -1
    /\ exec_call.response.error = "Command timeout after 10 seconds"
    /\ exec_call.child = "killed"

----------------------------------------------------------------------------
(* Claims about the shutdown (SpecShutdown) *)

\* start_server has returned
LoopLeft == start_pc \in {"returned", "exited"}

\* C25: signal_handler clears the running flag; once it has run, an accept
\* the main thread is in raises because the listening socket is closed, no
\* connection is accepted any more, start_server eventually returns, and
\* the socket file is gone when cleanup has run.
C25_SignalStopsServer ==
    /\ [][~signalled /\ signalled' => ~running']_vars
    /\ [](signalled /\ start_pc = "accept" => server_socket = "closed")
    /\ [](late = {})
    /\ (signalled ~> LoopLeft)
    /\ [](LoopLeft => ~socket_file)

\* C26: every connection that was being handled when signal_handler ran
\* has had its handle_client return, and so its response sent, when the
\* process has ended, with and without enable_threading.
C26_InFlightFinishes == start_pc = "exited" => caught \subseteq answered


----------------------------------------------------------------------------
(* Claims about the keys and the frames of the limiters *)

\* handle_client has run for a connection in this step
Handled == pending' # pending /\ last'.handled

\* the lockout key the claim gives the process of the handled connection
OwnKey == process_id(last'.conn.pid)

\* the handled connection reached validate_auth with a request object
ReachedAuth == last'.rate_ok /\ last'.msg.kind = "request"

\* C27: with peer credentials, a process is identified by the pid the
\* kernel reports.  A connection of a process whose lockout is active is
\* answered rate_limited whichever connection it is, a failed attempt is
\* recorded under the process whichever connection made it, a connection
\* is answered rate_limited only when failures are recorded under its own
\* process, and handling a connection of one process adds no failure and
\* no block to any other key.
C27_LockoutKeyedByProcess ==
    [][(peer_cred /\ auth_enabled /\ Handled)
        => /\ (ReachedAuth /\ BlockActive(Limiter, OwnKey, now))
               => last'.auth = "rate_limited"
           /\ last'.auth \in {"auth_failed", "rate_limited"}
               => /\ failed_attempts'[OwnKey] # <<>>
                  /\ ~BlockActive(Limiter, OwnKey, now)
                       => \/ Latest(failed_attempts'[OwnKey]) = now
                          \/ Len(failed_attempts'[OwnKey]) >= max_attempts
           /\ \A c \in ClientIds \ {OwnKey} :
                /\ Len(failed_attempts'[c]) <= Len(failed_attempts[c])
                /\ blocked_clients'[c] \in {blocked_clients[c], NoBlock}
                /\ BlockActive(Limiter', c, now) = BlockActive(Limiter, c, now)
      ]_vars

\* the failure that completes a lockout came over another connection than
\* the failure before it: both passed the request rate limiter, which
\* admits one request per socket object and second, in the same second
C27_Witness ==
    /\ peer_cred /\ auth_enabled /\ enable_rate_limit
    /\ last.handled /\ last.rate_ok /\ last.auth = "rate_limited"
    /\ ~last.pre_locked
    /\ failed_attempts[process_id(last.conn.pid)] = <<now, now>>
    /\ \A s \in SockIds : request_times[socket_client_id(s)] = <<now>>
    /\ \E p \in Pids : /\ failed_attempts[process_id(p)] = <<>>
                       /\ blocked_clients[process_id(p)] = NoBlock

\* C28: after a successful validate_auth call no failure and no block is
\* recorded for the client; one call adds at most one failure, and a block
\* is set only when max_attempts failures are recorded for the client, all
\* of them inside one window.  So the failures made before a success never
\* count toward a block after it.
C28_SuccessClearsFailures ==
    /\ [](AuthCalled /\ auth_call.valid
            => /\ failed_attempts[auth_call.client] = <<>>
               /\ blocked_clients[auth_call.client] = NoBlock)
    /\ [][\A c \in ClientIds :
            /\ Len(failed_attempts'[c]) <= Len(failed_attempts[c]) + 1
            /\ (blocked_clients'[c] # NoBlock
                    /\ blocked_clients'[c] # blocked_clients[c])
                => /\ Len(failed_attempts'[c]) >= max_attempts
                   /\ \A i \in 1..Len(failed_attempts'[c]) :
                        now - failed_attempts'[c][i] < window_seconds
       ]_vars

\* a success of a client that had failed before, fewer than max_attempts
\* times inside the window
C28_Witness ==
    /\ AuthCalled /\ auth_call.valid
    /\ auth_call.pre_count >= 1
    /\ auth_call.pre_count < max_attempts

\* C29: a check_rate_limit call for one client id leaves the timestamps
\* recorded for every other client id as they were, and with them the
\* result a check for any other client id would give afterwards.
C29_RateLimitPerClient ==
    [][\A c \in ClientIds \ {rate_call'.client} :
            /\ request_times'[c] = request_times[c]
            /\ check_rate_limit(request_times', c, now').ok
                 = check_rate_limit(request_times, c, now').ok
      ]_vars

\* a call for one client id was refused while another client id, with
\* timestamps of its own, is below the limit
C29_Witness ==
    /\ RateCalled /\ ~rate_call.ok
    /\ \E c \in ClientIds \ {rate_call.client} :
         /\ request_times[c] # <<>>
         /\ check_rate_limit(request_times, c, now).ok

\* C30: with authentication disabled every validate_auth call succeeds,
\* whichever client makes it and whether the request carries the
\* configured hash, another one, an empty one or none, and no step changes
\* failed_attempts or blocked_clients.
C30_AuthDisabledAllowsAll ==
    /\ []((~auth_enabled /\ auth_call.client # NoClient)
            => auth_call.valid /\ auth_call.error = "")
    /\ [][~auth_enabled => UNCHANGED <<failed_attempts, blocked_clients>>]_vars

\* a call without the configured hash was made with authentication
\* disabled
C30_Witness ==
    /\ ~auth_enabled
    /\ auth_call.client # NoClient
    /\ auth_call.hash \in {MissingHash, EmptyHash, BadHash}
    /\ auth_call.valid

----------------------------------------------------------------------------
(* Claims about the reserved commands and the stages of a connection *)

\* C31: whatever requests have been handled, the lists of the loaded
\* configuration are those load_config read, an introspection answers
\* with the server_info of that configuration, and neither introspection
\* nor ping passes an argv to a subprocess.
C31_IntrospectionStable ==
    /\ executables = InitExecutables
    /\ (last.handled /\ last.handler = "introspect")
         => /\ last.response.server_info = handle_introspection.server_info
            /\ last.response.success
    /\ (last.handled /\ last.handler \in {"introspect", "ping"})
         => last.argv = <<>>

\* an introspection answered after other connections were handled, one of
\* them with a failed authentication
C31_Witness ==
    /\ last.handled /\ last.handler = "introspect" /\ last.sent
    /\ \E c \in ClientIds : failed_attempts[c] # <<>>
    /\ \E s \in SockIds \ {last.conn.sock} :
         request_times[socket_client_id(s)] # <<>>

\* the orders in which the threads can be taken one after the other
Orders == {o \in [Workers -> Workers] : \A v, w \in Workers : v # w => o[v] # o[w]}

\* the calls of the threads made one after the other, the i-th to the last
\* of order o, on the limiter lim: the limiter afterwards, and whether every
\* call gave the result its thread got
RECURSIVE SerialRun(_, _, _)
SerialRun(lim, o, i) ==
    IF i > MaxWorkers THEN [lim |-> lim, same |-> TRUE]
    ELSE LET t == auth_threads[o[i]] IN
         IF t.pc = "idle" THEN SerialRun(lim, o, i + 1)
         ELSE LET r == validate_auth(lim, t.hash, t.client, now)
                  rest == SerialRun(r.lim, o, i + 1)
              IN [lim |-> rest.lim,
                  same |-> rest.same /\ r.valid = t.valid /\ r.error = t.error]

\* no thread is inside validate_auth
NoCallRunning == \A w \in Workers : auth_threads[w].pc \in {"idle", "returned"}

EmptyLimiter ==
    [failed_attempts |-> [c \in ClientIds |-> <<>>],
     blocked_clients |-> [c \in ClientIds |-> NoBlock]]

\* C32: when the validate_auth calls of the connection threads have
\* returned, their results and the limiter are those of the same calls made
\* one after the other in some order, and no client has more than
\* max_attempts failures recorded.
C32_AtomicLimiterUpdates ==
    NoCallRunning
    => /\ \E o \in Orders :
            LET serial == SerialRun(EmptyLimiter, o, 1) IN
            serial.same /\ serial.lim = Limiter
       /\ \A c \in ClientIds : Len(failed_attempts[c]) <= max_attempts

\* the order of the stages of a connection
StageOrder ==
    <<"FRAMING", "RATE_CHECK", "AUTH_CHECK", "VALIDATE", "EXECUTE",
      "RESPONDING", "CLOSED">>

\* the place of stage in StageOrder
StagePlace(stage) == CHOOSE i \in 1..Len(StageOrder) : StageOrder[i] = stage

\* C33: the stages a handled connection has passed follow one another in
\* the order FRAMING, RATE_CHECK, AUTH_CHECK, VALIDATE, EXECUTE,
\* RESPONDING, CLOSED; the rate limiter is consulted only for a connection
\* whose request has been read.
C33_StageOrder ==
    last.handled
    => /\ \A i, j \in 1..Len(last.stages) :
            i < j => StagePlace(last.stages[i]) < StagePlace(last.stages[j])
       /\ last.msg.kind \in FramingErrors
            => last.response.error = FramingErrorText(last.msg.kind)

\* C34: handle_client hands at most one response to send for a
\* connection, also when that send raises.
C34_SingleResponseWrite == last.handled => last.writes <= 1

\* C35: a validate_auth call of a client whose block is active leaves
\* failed_attempts and blocked_clients as they were, whichever hash the
\* request carries.
C35_BlockedCallChangesNothing ==
    [][(auth_call'.t = now /\ now' = now /\ auth_enabled
            /\ BlockActive(Limiter, auth_call'.client, now))
        => UNCHANGED <<failed_attempts, blocked_clients>>]_vars

\* a blocked client called with the right hash, some time after its block
\* began
C35_Witness ==
    /\ AuthCalled /\ auth_call.pre_active
    /\ auth_call.hash = GoodHash
    /\ auth_call.error = "rate_limited"
    /\ auth_call.t > block_began[auth_call.client]
    /\ failed_attempts[auth_call.client] # <<>>

----------------------------------------------------------------------------
(* Further claims about execute_command (SpecExec) *)

\* the request parameter item names a parameter that declared declares and
\* has a value that validate_parameter_value accepted
ValidatedItem(declared, item) ==
    \E i \in 1..Len(declared) :
        /\ declared[i].name = item[1]
        /\ item[2] # NullValue
        /\ validate_parameter_value(item[2], declared[i])

\* C36: the argv of a subprocess is the argv its request gives without
\* the parameters that are not declared and without those whose value is
\* null or was not accepted by validate_parameter_value: none of them
\* contributes an entry.
C36_ArgvFromValidatedParameters ==
    exec_call.kind = "subprocess"
    => LET declared == Commands[exec_call.request.command].parameters IN
       exec_call.argv
         = ExtendArgs(executables[exec_call.request.command], declared,
                      SelectSeq(exec_call.request.parameters,
                                LAMBDA item : ValidatedItem(declared, item)))

----------------------------------------------------------------------------
(* Further claims about the start and the executables (SpecLoad) *)

\* the executable name of the command that ran is a bare name, which the
\* child looks up along the PATH
BareName ==
    \A i \in 1..Len(config.commands[program.command][1]) :
        config.commands[program.command][1][i] # "/"

\* C37: the file a command with a relative executable name executes,
\* found through the PATH of the command's env, is the file
\* validate_executable_path found for it at load time, inside one of
\* allowed_executable_dirs.
C37_ExecutedFileIsApproved ==
    (program.found /\ BareName)
    => \E d \in config.allowed_executable_dirs :
          /\ Resolve(d).ok
          /\ IsPrefix(Resolve(d).at, program.at)
          /\ Resolve(join(d, config.commands[program.command][1])).at
               = program.at

----------------------------------------------------------------------------
(* Further claims about the pipeline (Spec) *)

\* a request was read and validate_auth refused it
Refused ==
    /\ auth_enabled /\ last.handled /\ last.rate_ok
    /\ last.msg.kind = "request"
    /\ last.auth # "ok"

\* C38: the response to a request that authentication refuses is one of
\* the two fixed refusals with the request_id of the request and nothing
\* else, whatever command the request names: no validation and no handler
\* has run for it, and it holds no command name, no list of commands and
\* no server_info.
C38_RefusalTellsNothing ==
    Refused
    => /\ last.validated = "skipped" /\ last.handler = "none"
       /\ \E text \in {"Too many failed authentication attempts",
                       "Authentication failed"} :
            last.response
              = [ErrorResponse(text) EXCEPT
                    !.request_id =
                        IF last.msg.request.request_id = NoRequestId
                        THEN Null ELSE last.msg.request.request_id]

\* a refused request for a command that is not configured
C38_Witness ==
    /\ Refused
    /\ last.msg.request.command = "rm"
    /\ last.sent

----------------------------------------------------------------------------
(* Further claims about receive_full_message (SpecRecvLive) *)

\* C39: a pass of the loop of receive_full_message that does not end the
\* loop leaves the buffer longer than it found it, the buffer of a loop
\* that goes on holds at most max_request_size bytes, and every
\* connection comes to the end of receive_full_message and to the close
\* of its socket.
C39_ReceiveTerminates ==
    /\ [][(recv_pc = "recv" /\ recv_pc' = "recv") => Len(data') > Len(data)]_vars
    /\ [](recv_pc = "recv" => Len(data) <= max_request_size)
    /\ <>(recv_pc # "recv" /\ recv_answer.closed)

\* a message that took several recv calls, the last of which filled the
\* buffer beyond max_request_size, and the socket closed after it
C39_Witness ==
    /\ recv_pc = "raised" /\ recv_result.error = TooLarge
    /\ recvs >= 3
    /\ recv_answer.closed


----------------------------------------------------------------------------
(* A command configured under a reserved name (Spec) *)

\* the last request names a reserved command that the config defines too
ReservedConfigured ==
    /\ ReadRequest
    /\ LastRequest.command \in ReservedNames \cap CommandNames

\* C40: a request for '__ping__' or '__introspect__' never starts the
\* executable the config defines under that name: when it is executed it
\* is the built-in handler of that name that answers, no argv is built,
\* and validation accepts it without reading the entry of the config.
C40_ReservedNameNotSpawned ==
    ReservedConfigured
    => /\ last.handler # "subprocess"
       /\ last.argv = <<>>
       /\ validate_request(LastRequest).valid
       /\ last.auth = "ok"
            => /\ LastRequest.command = "__ping__" => last.handler = "ping"
               /\ LastRequest.command = "__introspect__"
                    => last.handler = "introspect"

\* an authenticated '__ping__', configured as ['echo', 'pong'], answered
\* by the built-in handler
C40_Witness ==
    /\ ReservedConfigured
    /\ LastRequest.command = "__ping__"
    /\ Commands["__ping__"].executable = <<"echo", "pong">>
    /\ last.auth = "ok" /\ last.handler = "ping"
    /\ last.response.success /\ last.sent

====
